---- MODULE Spec2Model ----
(***************************************************************************)
(* Model of the runtime lifecycle manager of hyp3rd/observe:               *)
(*   pkg/observe  (Client, watchLoop, reloadRuntime, swapRuntime)          *)
(*   pkg/runtime  (New, InitMetrics, Shutdown, Snapshot, MetricsState)     *)
(*   pkg/config   (Load, Validate), pkg/diagnostics (Server.Start)         *)
(*                                                                         *)
(* Processes: the single watch loop goroutine, one external caller         *)
(* goroutine (reader / Shutdown caller), the file system producing change  *)
(* events, and the Go runtime (clock and timer).                           *)
(***************************************************************************)
EXTENDS Integers, Sequences, FiniteSets, TLC

(***************************************************************************)
(* Bounds of the model.                                                    *)
(***************************************************************************)
\* number of file-system operations on the watched directory
MaxFsOps == 2
\* debounce duration in clock ticks when debouncing is enabled
DebounceTicks == 2
\* Shutdown calls the external caller makes on one runtime
MaxCalls == 2
\* characters after the scheme of an Authorization header, and of a token
MaxCred == 3
\* ExportSpans calls on one exporter bundle
MaxExports == 3
\* spans in one exported batch
MaxBatch == 2
\* the largest sampling.argument tried, in quarters
MaxRatio == 6
\* messages the kafka reader can deliver to one Consumer.Run
MaxMsgs == 3
\* Start calls on one ticker adapter
MaxStarts == 2
\* Stop calls on one ticker adapter
MaxStops == 1
\* maps and OTLP sections a caller of Runtime.Config allocates
MaxAllocs == 1
\* loaders given to one call of config.Load
MaxLoaders == 2

None == 0

(***************************************************************************)
(* Configuration values (config.Config), restricted to the fields the      *)
(* lifecycle reads.  arg is sampling.argument in percent; nan says the     *)
(* YAML value was .nan (a float64 NaN).                                    *)
(***************************************************************************)
Cfg(mode, arg, nan, diag, addr, rtm) ==
    [name |-> "svc", endpoint |-> "collector:4317", mode |-> mode, arg |-> arg,
     nan |-> nan, diag |-> diag, addr |-> addr, rtm |-> rtm]

\* a file whose bytes parse as YAML into the given configuration
Yaml(cfg) == [parse |-> TRUE, cfg |-> cfg]

\* the configurations the watched file is written with
CfgPlain   == Cfg("always_on", 100, FALSE, FALSE, "", TRUE)
CfgDiagOn  == Cfg("always_on", 100, FALSE, TRUE, "127.0.0.1:14271", TRUE)
CfgRatio   == Cfg("trace_id_ratio", 25, FALSE, FALSE, "", TRUE)
CfgRatioDiag == Cfg("trace_id_ratio", 25, FALSE, TRUE, "127.0.0.1:14271", TRUE)
CfgRatioZero == Cfg("trace_id_ratio", 0, FALSE, FALSE, "", TRUE)
CfgNoMetrics == Cfg("always_off", 100, FALSE, FALSE, "", FALSE)
CfgNaN     == Cfg("always_on", 0, TRUE, FALSE, "", TRUE)
CfgBogus   == Cfg("bogus", 100, FALSE, FALSE, "", TRUE)

\* a file that is not YAML at all
Garbage == [parse |-> FALSE, cfg |-> CfgPlain]

InitialConfigs == {CfgPlain, CfgDiagOn}

FileContents ==
    {Yaml(CfgPlain), Yaml(CfgDiagOn), Yaml(CfgRatio), Yaml(CfgRatioDiag),
     Yaml(CfgRatioZero), Yaml(CfgNoMetrics), Yaml(CfgNaN), Yaml(CfgBogus), Garbage}

\* the contents written in the scenarios about Shutdown calls
FewContents == {Yaml(CfgPlain), Yaml(CfgRatio)}

SupportedModes ==
    {"always_on", "always_off", "parentbased_always_on", "parentbased_always_off",
     "trace_id_ratio"}

\* config.Validate: nil error iff the baseline expectations hold
Validate(cfg) ==
    /\ cfg.name # ""
    /\ cfg.endpoint # ""
    /\ cfg.mode \in SupportedModes

\* options.loadConfig over a FileLoader: parse, layer, validate
loadConfig(content) ==
    IF ~content.parse THEN [ok |-> FALSE, cfg |-> content.cfg]
    ELSE IF ~Validate(content.cfg) THEN [ok |-> FALSE, cfg |-> content.cfg]
    ELSE [ok |-> TRUE, cfg |-> content.cfg]

\* configDigest: json.Marshal of every field, then SHA-256 (injective on the
\* serialisation); json.Marshal fails on a NaN float
configDigest(cfg) ==
    IF cfg.nan THEN [ok |-> FALSE, sum |-> <<>>]
    ELSE [ok |-> TRUE,
          sum |-> <<cfg.name, cfg.endpoint, cfg.mode, cfg.arg, cfg.rtm, cfg.diag, cfg.addr>>]

\* a samplerFromConfig that rejects only the negative ratios
samplerFromConfigZero(cfg) ==
    CASE cfg.mode = "always_on" -> TRUE
      [] cfg.mode = "always_off" -> TRUE
      [] cfg.mode = "parentbased_always_on" -> TRUE
      [] cfg.mode = "parentbased_always_off" -> TRUE
      [] cfg.mode = "trace_id_ratio" ->
            IF cfg.nan THEN TRUE ELSE ~(cfg.arg < 0 \/ cfg.arg > 100)
      [] OTHER -> FALSE

\* samplerFromConfig: TRUE iff a sampler is returned (nil error)
samplerFromConfig(cfg) ==
    CASE cfg.mode = "always_on" -> TRUE
      [] cfg.mode = "always_off" -> TRUE
      [] cfg.mode = "parentbased_always_on" -> TRUE
      [] cfg.mode = "parentbased_always_off" -> TRUE
      [] cfg.mode = "trace_id_ratio" ->
            \* both comparisons are false for a NaN argument
            IF cfg.nan THEN TRUE ELSE ~(cfg.arg <= 0 \/ cfg.arg > 100)
      [] OTHER -> FALSE

\* the sampling modes handed to samplerFromConfig
SamplingModes ==
    SupportedModes \cup {"", "bogus", "ALWAYS_ON", "traceidratio"}

\* the sampling arguments handed to samplerFromConfig, in percent
RatioArgs == (-1..1) \cup {25 * k : k \in -1..MaxRatio} \cup (99..101)

\* config.SamplingConfig values: a mode with a number or a NaN as argument
SamplingConfigs ==
    {[mode |-> m, arg |-> a, nan |-> FALSE] : m \in SamplingModes, a \in RatioArgs}
        \cup {[mode |-> m, arg |-> 0, nan |-> TRUE] : m \in SamplingModes}

\* samplerFromConfig has not been called
NoCall == [done |-> FALSE, cfg |-> [mode |-> "", arg |-> 0, nan |-> FALSE], ok |-> FALSE]

(***************************************************************************)
(* Instrumentation helpers (worker.Helper, messaging.Helper).  A helper is *)
(* nil or has a tracer and instruments; the wrapped function is given by   *)
(* the error it returns, "" standing for nil.  tel collects what the call  *)
(* did: the invocations of the function, the span, the measurements.       *)
(***************************************************************************)
FnErrors == {"", "job failed", "context canceled"}

NoTel == [calls |-> 0, span |-> <<>>, status |-> "Unset", recorded |-> "",
          latency |-> 0, count |-> 0, tag |-> ""]

\* fn(ctx)
CallFn(tel) == [tel EXCEPT !.calls = @ + 1]

\* worker.spanName
WorkerSpanName(name, queue) ==
    IF queue # "" THEN <<queue, ":", name>> ELSE <<name>>

\* worker.resultTag
resultTag(err) == IF err # "" THEN "error" ELSE "success"

\* an Instrument that reports the status of the span instead of the error
InstrumentNoError(helperNil, name, queue, fnErr) ==
    IF helperNil THEN [ret |-> fnErr, tel |-> CallFn(NoTel)]
    ELSE [ret |-> "",
          tel |-> [CallFn(NoTel) EXCEPT !.span = <<queue, name>>, !.count = 1]]

\* worker.Helper.Instrument: the value returned and what the call did
Instrument(helperNil, name, queue, fnErr) ==
    IF helperNil THEN [ret |-> fnErr, tel |-> CallFn(NoTel)]
    ELSE LET jobName == IF name = "" THEN "worker-job" ELSE name
             started == [NoTel EXCEPT !.span = WorkerSpanName(jobName, queue)]
             called  == CallFn(started)
             ended   == IF fnErr # ""
                           THEN [called EXCEPT !.recorded = fnErr, !.status = "Error"]
                           ELSE [called EXCEPT !.status = "Ok"]
         IN  [ret |-> fnErr,
              tel |-> [ended EXCEPT !.latency = 1, !.count = 1, !.tag = resultTag(fnErr)]]

\* messaging.spanName
MessagingSpanName(operation, destination) ==
    IF operation # "" /\ destination # "" THEN <<operation, " ", destination>>
    ELSE IF destination # "" THEN <<destination>>
    ELSE <<"messaging">>

\* messaging.Helper.instrument
instrument(helperNil, operation, destination, fnErr) ==
    IF helperNil THEN [ret |-> fnErr, tel |-> CallFn(NoTel)]
    ELSE LET started == [NoTel EXCEPT !.span = MessagingSpanName(operation, destination)]
             called  == CallFn(started)
             ended   == IF fnErr # ""
                           THEN [called EXCEPT !.recorded = fnErr, !.status = "Error"]
                           ELSE [called EXCEPT !.status = "Ok"]
         IN  [ret |-> fnErr, tel |-> [ended EXCEPT !.latency = 1, !.count = 1]]

\* messaging.Helper.InstrumentPublish
InstrumentPublish(helperNil, operation, destination, fnErr) ==
    IF helperNil THEN [ret |-> fnErr, tel |-> CallFn(NoTel)]
    ELSE instrument(helperNil, operation, destination, fnErr)

\* messaging.Helper.InstrumentConsume
InstrumentConsume(helperNil, operation, destination, fnErr) ==
    IF helperNil THEN [ret |-> fnErr, tel |-> CallFn(NoTel)]
    ELSE instrument(helperNil, operation, destination, fnErr)

\* no helper has been called
NoInstr == [done |-> FALSE, method |-> "", helperNil |-> FALSE, fnErr |-> "",
            ret |-> "", tel |-> NoTel]

(***************************************************************************)
(* The kafka consumer (kafka.Consumer).  Messages are numbered in the      *)
(* order the reader delivers them; an error value is a message with its    *)
(* cause, as built by ewrap.Wrap / ewrap.New.                              *)
(***************************************************************************)
NoErr == [msg |-> "", cause |-> ""]

\* ewrap.New(msg), and an error of the handler or of the reader
ErrNew(msg) == [msg |-> msg, cause |-> ""]

\* ewrap.Wrap(err, msg)
ErrWrap(cause, msg) == [msg |-> msg, cause |-> cause]

\* Consumer.validate
validate(handlerNil, readerNil) ==
    IF handlerNil THEN ErrNew("handler is nil")
    ELSE IF readerNil THEN ErrNew("kafka reader is nil")
    ELSE NoErr

\* Consumer.processMessage: the error returned and the number of times the
\* handler ran
processMessage(workerNil, messagingNil, name, topic, handlerErr) ==
    LET exec == IF messagingNil THEN [ret |-> handlerErr, tel |-> CallFn(NoTel)]
                ELSE InstrumentConsume(messagingNil, "", topic, handlerErr)
        job  == IF ~workerNil THEN Instrument(workerNil, name, topic, exec.ret)
                ELSE [ret |-> exec.ret, tel |-> CallFn(NoTel)]
    IN  [ret |-> job.ret, calls |-> job.tel.calls * exec.tel.calls]

\* Consumer.Run has not been called
NoRun == [pc |-> "new", workerNil |-> FALSE, messagingNil |-> FALSE, cancelled |-> FALSE,
          msg |-> 0, log |-> <<>>, ret |-> NoErr]

(***************************************************************************)
(* The TLS settings of the OTLP exporters.  A configuration gives the       *)
(* protocol, exporters.otlp.insecure and the tls section; env says whether *)
(* the CA file can be read and parsed and whether the key pair loads.      *)
(***************************************************************************)
ErrTLSNotEnabled == ErrNew("tls is not enabled")

\* runtime.tlsConfigFrom: whether the *tls.Config is nil, and the error
tlsConfigFrom(cfg, env) ==
    IF cfg.caFile = "" /\ cfg.certFile = "" /\ cfg.keyFile = "" /\ ~cfg.insecure
       THEN [nil |-> TRUE, err |-> ErrTLSNotEnabled]
    ELSE IF cfg.caFile # "" /\ ~env.caReads
       THEN [nil |-> TRUE, err |-> ErrWrap("open", "read ca file")]
    ELSE IF cfg.caFile # "" /\ ~env.caParses
       THEN [nil |-> TRUE, err |-> ErrNew("failed to parse ca file")]
    ELSE IF (cfg.certFile # "" \/ cfg.keyFile # "")
            /\ (cfg.certFile = "" \/ cfg.keyFile = "")
       THEN [nil |-> TRUE, err |-> ErrNew("tls cert_file and key_file must both be set")]
    ELSE IF (cfg.certFile # "" \/ cfg.keyFile # "") /\ ~env.pairLoads
       THEN [nil |-> TRUE, err |-> ErrWrap("x509", "load tls client certificate")]
    ELSE [nil |-> FALSE, err |-> NoErr]

\* otlpGRPCOptions, otlpMetricGRPCOptions and buildHTTPOptions, which treat
\* the endpoint and the TLS settings alike: the options and the error
exporterOptions(cfg, env) ==
    IF cfg.insecure THEN [opts |-> {"endpoint", "insecure"}, err |-> NoErr]
    ELSE LET res == tlsConfigFrom(cfg.tls, env)
         IN  IF res.err # NoErr /\ res.err # ErrTLSNotEnabled
                THEN [opts |-> {}, err |-> res.err]
             ELSE IF ~res.nil THEN [opts |-> {"endpoint", "tls"}, err |-> NoErr]
             ELSE [opts |-> {"endpoint"}, err |-> NoErr]

\* newExporterBundle as far as its error goes: the trace exporter, then the
\* metric exporter, each from its options; newOK says whether the exporter
\* constructors of the OpenTelemetry SDK succeed
bundleFrom(cfg, env) ==
    LET traceOpts  == exporterOptions(cfg, env)
        metricOpts == exporterOptions(cfg, env)
    IN  IF cfg.endpoint = ""
           THEN [opts |-> {}, err |-> ErrNew("otlp exporter endpoint is required")]
        ELSE IF traceOpts.err # NoErr THEN traceOpts
        ELSE IF ~env.newOK
           THEN [opts |-> {}, err |-> ErrWrap("sdk", "create otlp trace exporter")]
        ELSE IF metricOpts.err # NoErr THEN metricOpts
        ELSE metricOpts

\* the exporter configurations
TLSConfigs ==
    [caFile : {"", "ca.pem"}, certFile : {"", "client.pem"}, keyFile : {"", "client.key"},
     insecure : BOOLEAN]

OTLPConfigs ==
    [protocol : {"grpc", "http"}, endpoint : {"collector:4317"}, insecure : BOOLEAN,
     tls : TLSConfigs]

Environments == [caReads : BOOLEAN, caParses : BOOLEAN, pairLoads : BOOLEAN, newOK : {TRUE}]

\* newExporterBundle has not been called
NoBundle ==
    [done |-> FALSE, env |-> [caReads |-> TRUE, caParses |-> TRUE, pairLoads |-> TRUE,
                              newOK |-> TRUE],
     cfg |-> [protocol |-> "grpc", endpoint |-> "", insecure |-> FALSE,
              tls |-> [caFile |-> "", certFile |-> "", keyFile |-> "", insecure |-> FALSE]],
     opts |-> {}, err |-> NoErr]

(***************************************************************************)
(* config.Load.  A configuration is given by three of its fields; a loader *)
(* is nil, or its Load returns a skip error, another error, or a map that  *)
(* sets some of the fields (possibly none), which decodes or does not.     *)
(***************************************************************************)
LoadFields == {"name", "endpoint", "mode"}

\* config.DefaultConfig
DefaultConfig ==
    [name |-> "observe-service", endpoint |-> "localhost:4317",
     mode |-> "parentbased_always_on"]

\* config.Config{}
ZeroConfig == [name |-> "", endpoint |-> "", mode |-> ""]

\* the values a loader gives to a field
LoadValues(f) ==
    CASE f = "name" -> {"file-service", "env-service", ""}
      [] f = "endpoint" -> {"collector:4317"}
      [] f = "mode" -> {"always_off", "bogus"}

\* the maps a loader returns: fields with their values
ValueMaps ==
    UNION {[fs -> UNION {LoadValues(f) : f \in fs}] : fs \in SUBSET LoadFields}

Loaders ==
    {[kind |-> k, values |-> <<>>] : k \in {"nil", "skip", "error"}}
        \cup {[kind |-> k, values |-> v] :
                  k \in {"map"},
                  v \in {w \in ValueMaps : \A f \in DOMAIN w : w[f] \in LoadValues(f)}}
        \cup {[kind |-> "undecodable", values |-> [f \in {"mode"} |-> "bogus"]]}

RECURSIVE SeqsUpTo(_, _)
\* the sequences over S of length at most n
SeqsUpTo(S, n) ==
    IF n = 0 THEN {<<>>}
    ELSE LET shorter == SeqsUpTo(S, n - 1)
         IN  shorter \cup {Append(q, x) : q \in {p \in shorter : Len(p) = n - 1}, x \in S}

\* a decodeInto that does not overwrite what an earlier loader has set
decodeIntoFirst(target, input) ==
    [f \in LoadFields |->
        IF f \in DOMAIN input /\ target[f] = DefaultConfig[f] THEN input[f] ELSE target[f]]

\* config.decodeInto: the keys of the input are decoded onto the target
decodeInto(target, input) ==
    [f \in LoadFields |-> IF f \in DOMAIN input THEN input[f] ELSE target[f]]

RECURSIVE LoadLoop(_, _)
\* config.Load: the loop over the loaders, then Validate
LoadLoop(cfg, loaders) ==
    IF loaders = <<>>
       THEN IF ~Validate(cfg) THEN [cfg |-> ZeroConfig, err |-> "invalid configuration"]
            ELSE [cfg |-> cfg, err |-> ""]
    ELSE LET loader == Head(loaders)
         IN  IF loader.kind = "nil" THEN LoadLoop(cfg, Tail(loaders))
             ELSE IF loader.kind = "skip" THEN LoadLoop(cfg, Tail(loaders))
             ELSE IF loader.kind = "error" THEN [cfg |-> ZeroConfig, err |-> "loader failed"]
             ELSE IF DOMAIN loader.values = {} THEN LoadLoop(cfg, Tail(loaders))
             ELSE IF loader.kind = "undecodable"
                     THEN [cfg |-> ZeroConfig, err |-> "decode config"]
             ELSE LoadLoop(decodeInto(cfg, loader.values), Tail(loaders))

\* config.Load
Load(loaders) == LoadLoop(DefaultConfig, loaders)

\* config.Load has not been called
NoLoad == [done |-> FALSE, loaders |-> <<>>, cfg |-> ZeroConfig, err |-> ""]

(***************************************************************************)
(* Configuration values with their references.  A config.Config holds its  *)
(* strings by value, Service.Attributes as a reference to a map and        *)
(* Exporters.OTLP as a pointer to an OTLPConfig (0 for nil); maps and otlp  *)
(* are the objects these references point to.  A map is given by the value *)
(* of one key, an OTLPConfig by its Endpoint and one of its Headers.       *)
(***************************************************************************)
Refs == 1..(1 + MaxAllocs)

NoOTLP == [endpoint |-> "", headers |-> ""]

\* the memory after runtime.New(cfg): the runtime's r.cfg and its objects
NewMemory ==
    [maps |-> [r \in Refs |-> IF r = 1 THEN "core" ELSE ""],
     otlp |-> [r \in Refs |-> IF r = 1
                                 THEN [endpoint |-> "collector:4317", headers |-> "token"]
                                 ELSE NoOTLP],
     used |-> 1,
     rcfg |-> [name |-> "svc", attributes |-> 1, otlp |-> 1],
     got  |-> FALSE,
     copy |-> [name |-> "", attributes |-> 0, otlp |-> 0]]

\* Runtime.Config: "return r.cfg" assigns the struct to the caller
Config(mem) == [mem EXCEPT !.got = TRUE, !.copy = mem.rcfg]

\* the configuration a config.Config value denotes
Denotes(mem, cfg) ==
    [name |-> cfg.name,
     attributes |-> IF cfg.attributes = 0 THEN "" ELSE mem.maps[cfg.attributes],
     otlp |-> IF cfg.otlp = 0 THEN NoOTLP ELSE mem.otlp[cfg.otlp]]

\* runtime.endpointForSnapshot
endpointForSnapshot(mem, cfg) ==
    IF cfg.otlp = 0 THEN "" ELSE mem.otlp[cfg.otlp].endpoint

\* Runtime.Snapshot: the fields read from r.cfg
ConfigSnapshot(mem) ==
    [name |-> mem.rcfg.name, endpoint |-> endpointForSnapshot(mem, mem.rcfg)]

(***************************************************************************)
(* The ticker adapter (ticker.Adapter).  A run loop is named by the number *)
(* of the Start call that spawned it, and a.cancel by the loop whose       *)
(* context it cancels (0 for nil).  wg is the counter of a.wg; the         *)
(* goroutines blocked in a.wg.Wait are the parked waiters of the Stop      *)
(* calls.                                                                  *)
(***************************************************************************)
NoLoop == [pc |-> "none", ctxDone |-> FALSE]

NoStop == [pc |-> "none", running |-> FALSE, cancel |-> 0, ctxDone |-> FALSE,
           ctxFirst |-> FALSE, waiter |-> "none", ret |-> NoErr,
           after |-> [running |-> FALSE, cancel |-> 0, exited |-> FALSE]]

NoStart == [n |-> 0, fnNil |-> FALSE, wasRunning |-> FALSE, ret |-> NoErr, same |-> TRUE]

\* NewAdapter: a stopped adapter
NewAdapter ==
    [running |-> FALSE, cancel |-> 0, wg |-> 0, panicked |-> FALSE,
     loops |-> [l \in 1..MaxStarts |-> NoLoop], stops |-> [i \in 1..MaxStops |-> NoStop],
     nStops |-> 0, lastStart |-> NoStart]

\* the fields of the Adapter that Start and Stop read and write
Fields(a) == [running |-> a.running, cancel |-> a.cancel, wg |-> a.wg]

\* a loop that is in its for statement, or about to enter it
Active(l) == l.pc \in {"spawned", "select", "job"}

\* a Start that does not look at a.running
StartNoCheck(a, n, fnNil) ==
    IF fnNil THEN [ret |-> ErrNew("job function is required"), a |-> a]
    ELSE [ret |-> NoErr,
          a |-> [a EXCEPT !.cancel = n, !.running = TRUE, !.wg = @ + 1,
                          !.loops[n] = [pc |-> "spawned", ctxDone |-> FALSE]]]

\* Adapter.Start, as its n-th call: the error returned and the adapter after
Start(a, n, fnNil) ==
    IF fnNil THEN [ret |-> ErrNew("job function is required"), a |-> a]
    ELSE IF a.running THEN [ret |-> ErrNew("ticker adapter already running"), a |-> a]
    ELSE [ret |-> NoErr,
          a |-> [a EXCEPT !.cancel = n, !.running = TRUE, !.wg = @ + 1,
                          !.loops[n] = [pc |-> "spawned", ctxDone |-> FALSE]]]

\* a markStopped that forgets a.running
markStoppedKeep(a, l) ==
    [a EXCEPT !.cancel = 0, !.loops[l].pc = "wgDone"]

\* Adapter.markStopped, called by loop l
markStopped(a, l) ==
    [a EXCEPT !.running = FALSE, !.cancel = 0, !.loops[l].pc = "wgDone"]

\* a.wg.Done(), called by loop l: a counter of zero releases the goroutines
\* parked in a.wg.Wait()
wgDone(a, l) ==
    LET wg == a.wg - 1
    IN  [a EXCEPT !.wg = wg, !.loops[l].pc = "exited",
                  !.stops = [i \in 1..MaxStops |->
                                IF wg = 0 /\ a.stops[i].waiter = "parked"
                                   THEN [a.stops[i] EXCEPT !.waiter = "released"]
                                   ELSE a.stops[i]]]

\* what Stop leaves behind when it returns: the adapter's fields, and
\* whether the loop it cancelled has exited
After(a, c) ==
    [running |-> a.running, cancel |-> a.cancel,
     exited |-> c # 0 /\ a.loops[c].pc = "exited"]

(***************************************************************************)
(* Runtime objects (runtime.Runtime).                                      *)
(***************************************************************************)
\* the addresses on which a diagnostics listener of some runtime is bound
Listening(rs) == {rs[i].cfg.addr : i \in {j \in DOMAIN rs : rs[j].diag}}

\* diagnostics.Server.Start: TRUE iff the listener could be bound
ServerStart(cfg, rs) ==
    /\ cfg.addr # ""
    /\ cfg.addr \notin Listening(rs)

\* runtime.New that drops the error of samplerFromConfig
NewNoSampler(cfg, envOK, rs, stamp) ==
    LET rt == [cfg |-> cfg, startTime |-> stamp, lastReload |-> stamp,
               metricsState |-> FALSE, metrics |-> FALSE,
               diag |-> cfg.diag, once |-> "idle", shutdown |-> FALSE, subShut |-> 0]
    IN  IF ~envOK THEN [ok |-> FALSE, rt |-> rt, registered |-> FALSE]
        ELSE IF cfg.diag /\ ~ServerStart(cfg, rs)
           THEN [ok |-> FALSE, rt |-> rt, registered |-> TRUE]
        ELSE [ok |-> TRUE, rt |-> rt, registered |-> TRUE]

\* runtime.New: envOK says whether the exporters and the resource could be
\* built; stamp is time.Now() on a logical clock; registered says whether
\* otel.SetTracerProvider and otel.SetMeterProvider were reached
New(cfg, envOK, rs, stamp) ==
    LET rt == [cfg |-> cfg, startTime |-> stamp, lastReload |-> stamp,
               metricsState |-> FALSE, metrics |-> FALSE,
               diag |-> cfg.diag, once |-> "idle", shutdown |-> FALSE, subShut |-> 0]
    IN  IF ~envOK THEN [ok |-> FALSE, rt |-> rt, registered |-> FALSE]
        ELSE IF ~samplerFromConfig(cfg)
           THEN [ok |-> FALSE, rt |-> rt, registered |-> FALSE]
        ELSE IF cfg.diag /\ ~ServerStart(cfg, rs)
           THEN [ok |-> FALSE, rt |-> rt, registered |-> TRUE]
        ELSE [ok |-> TRUE, rt |-> rt, registered |-> TRUE]

\* Runtime.InitMetrics: startOK says whether the runtime-metrics controller
\* could be started
InitMetrics(rt, startOK) ==
    IF ~rt.cfg.rtm THEN [ok |-> TRUE, rt |-> rt]
    ELSE IF ~startOK THEN [ok |-> FALSE, rt |-> [rt EXCEPT !.metricsState = TRUE]]
    ELSE [ok |-> TRUE, rt |-> [rt EXCEPT !.metricsState = TRUE, !.metrics = TRUE]]

\* a Once that runs the function again once the first run has completed
OnceDoAgain(once) == once # "running"

\* sync.Once.Do: the caller runs the function iff no call has started it yet
OnceDo(once) == once = "idle"

\* the function Runtime.Shutdown hands to once.Do: every sub-resource gets its
\* shutdown attempt, the listener is closed, the state is marked
ShutdownBody(rt) ==
    [rt EXCEPT !.once = "done", !.shutdown = TRUE, !.subShut = @ + 1, !.diag = FALSE]

(***************************************************************************)
(* Runtime.Shutdown on a runtime of its own: the sub-resources it owns (a  *)
(* field that is nil is skipped) and those whose shutdown fails.           *)
(***************************************************************************)
\* the sub-resources in the order of the blocks of Runtime.Shutdown
Owned == <<"tracerProvider", "meterProvider", "exporters", "metrics", "diagServer">>

\* a runtime on which Shutdown has not been called
NewRuntime ==
    [once |-> "idle", owned |-> {}, failing |-> {}, attempted |-> <<>>, errs |-> <<>>,
     shutdown |-> FALSE, calls |-> 0, first |-> NoErr, last |-> NoErr]

\* one "if r.x != nil { err := r.x.Shutdown(ctx) ... }" block
shutdownStep(r, name) ==
    IF name \notin r.owned THEN r
    ELSE [r EXCEPT !.attempted = Append(@, name),
                   !.errs = IF name \in r.failing THEN Append(@, name) ELSE @]

\* a function for once.Do that leaves at the first failing sub-resource
shutdownFuncFailFast(r) ==
    LET RECURSIVE steps(_, _)
        steps(acc, i) ==
            IF i > Len(Owned) \/ acc.errs # <<>> THEN acc
            ELSE steps(shutdownStep(acc, Owned[i]), i + 1)
    IN  [steps(r, 1) EXCEPT !.shutdown = TRUE]

\* the function Runtime.Shutdown hands to once.Do
shutdownFunc(r) ==
    LET RECURSIVE steps(_, _)
        steps(acc, i) ==
            IF i > Len(Owned) THEN acc
            ELSE steps(shutdownStep(acc, Owned[i]), i + 1)
    IN  [steps(r, 1) EXCEPT !.shutdown = TRUE]

\* Runtime.Shutdown: the error it returns is that of the function once.Do ran
\* in this call, wrapped
Shutdown(r) ==
    LET ran  == OnceDo(r.once)
        done == IF ran THEN [shutdownFunc(r) EXCEPT !.once = "done"] ELSE r
        err  == IF ran /\ done.errs # <<>>
                   THEN ErrWrap(done.errs, "shutdown runtime") ELSE NoErr
    IN  [done EXCEPT !.calls = @ + 1, !.last = err,
                     !.first = IF r.calls = 0 THEN err ELSE @]

\* Runtime.IsShutdown
IsShutdown(r) == r.shutdown

(***************************************************************************)
(* The instrumentation a runtime carries: the helper fields runtime.New    *)
(* fills in, their accessors and the map Snapshot reports.                 *)
(***************************************************************************)
\* the modules in the order runtime.New looks at them
Modules == <<"http", "grpc", "sql", "messaging", "worker">>

\* the modules whose constructor returns an error
Fallible == {"http", "messaging", "worker"}

\* the fields of Runtime a module's block assigns
HelperFields(m) ==
    CASE m = "http"      -> {"httpMiddleware"}
      [] m = "grpc"      -> {"grpcServerInt", "grpcClientInt"}
      [] m = "sql"       -> {"sqlHelper"}
      [] m = "messaging" -> {"messagingHelper"}
      [] m = "worker"    -> {"workerHelper"}

\* a block that builds the helper whatever the configuration says
helperStepAlways(acc, m) ==
    IF acc.nil THEN acc
    ELSE IF m \in Fallible /\ m \in acc.failing
       THEN [acc EXCEPT !.nil = TRUE, !.fields = {},
                        !.err = ErrWrap(m, "init instrumentation")]
    ELSE [acc EXCEPT !.fields = @ \cup HelperFields(m)]

\* one "if cfg.Instrumentation.X.Enabled { ... }" block of runtime.New
helperStep(acc, m) ==
    IF acc.nil THEN acc
    ELSE IF m \notin acc.enabled THEN acc
    ELSE IF m \in Fallible /\ m \in acc.failing
       THEN [acc EXCEPT !.nil = TRUE, !.fields = {},
                        !.err = ErrWrap(m, "init instrumentation")]
    ELSE [acc EXCEPT !.fields = @ \cup HelperFields(m)]

\* runtime.New from the Runtime literal on: enabled are the modules the
\* configuration enables, rtm is instrumentation.runtime_metrics.enabled,
\* failing the modules whose constructor fails
newInstrumented(enabled, rtm, failing) ==
    LET RECURSIVE blocks(_, _)
        blocks(acc, i) ==
            IF i > Len(Modules) THEN acc
            ELSE blocks(helperStep(acc, Modules[i]), i + 1)
    IN  blocks([enabled |-> enabled, rtm |-> rtm, failing |-> failing, nil |-> FALSE,
                fields |-> {}, err |-> NoErr], 1)

\* Runtime.InitMetrics on the fields: the controller is stored once started
initMetricsField(r, startOK) ==
    IF ~r.rtm THEN r
    ELSE IF ~startOK THEN r
    ELSE [r EXCEPT !.fields = @ \cup {"metrics"}]

\* HTTPMiddleware, GRPCUnaryServerInterceptor and GRPCUnaryClientInterceptor,
\* SQLHelper, MessagingHelper, WorkerHelper: TRUE iff what they return is
\* not nil
Accessor(r, m) == \A f \in HelperFields(m) : f \in r.fields

\* Snapshot().Instrumentation
Instrumentation(r) ==
    [k \in {"http", "grpc", "sql", "messaging", "worker", "runtimeMetrics"} |->
        CASE k = "http"           -> "httpMiddleware" \in r.fields
          [] k = "grpc"           -> "grpcServerInt" \in r.fields
          [] k = "sql"            -> "sqlHelper" \in r.fields
          [] k = "messaging"      -> "messagingHelper" \in r.fields
          [] k = "worker"         -> "workerHelper" \in r.fields
          [] k = "runtimeMetrics" -> "metrics" \in r.fields]

\* runtime.New has not been called
NoRuntime ==
    [done |-> FALSE, rt |-> [enabled |-> {}, rtm |-> FALSE, failing |-> {}, nil |-> TRUE,
                             fields |-> {}, err |-> NoErr],
     metricsInit |-> FALSE, taken |-> FALSE, snap |-> [k \in {} |-> FALSE]]

\* reloadCount / MetricsState.ConfigReloads as seen through a runtime
reloadCount(hasState, reloads) == IF hasState THEN reloads ELSE 0

\* Runtime.Snapshot
SnapshotOf(rt, reloads) ==
    [mode |-> rt.cfg.mode, endpoint |-> rt.cfg.endpoint,
     start |-> rt.startTime, lastReload |-> rt.lastReload,
     runtimeMetrics |-> rt.metrics,
     count |-> reloadCount(rt.metricsState, reloads)]

\* the zero diagnostics.Snapshot
NoSnap == [mode |-> "", endpoint |-> "", start |-> 0, lastReload |-> 0,
           runtimeMetrics |-> FALSE, count |-> 0]

\* a reset that leaves an armed timer at its earlier deadline
resetTimerKeep(t, d) ==
    IF t.armed THEN t ELSE [armed |-> TRUE, rem |-> d, chan |-> FALSE]

\* time.Timer.Stop followed by the non-blocking drain and Reset
resetTimer(t, d) ==
    LET stopped == t.armed
        drained == IF stopped THEN t.chan ELSE FALSE
    IN  [armed |-> TRUE, rem |-> d, chan |-> drained]

(***************************************************************************)
(* Exporter bundle (exporterBundle, traceExporterStats).                   *)
(***************************************************************************)
\* a nil *exporterError
NoError == [message |-> "", time |-> 0]

\* the errors the inner exporter returns; "" is a nil error
ExportErrors == {"", "unavailable", "deadline exceeded"}

\* the sub-resources of a bundle
SubResources == {"metricReader", "metricExporter", "traceExporter"}

\* no shutdown of the bundle has returned yet
NoShut == [called |-> FALSE, attempted |-> <<>>, errs |-> <<>>]

\* newExporterBundle / newTraceExporterStats; clock is the wall clock, shut
\* the Shutdown calls exporterBundle.shutdown made and the errors it joined
newExporterBundle ==
    [dropped |-> 0, lastError |-> NoError, clock |-> 1, shut |-> NoShut]

\* one "if b.x != nil { err := b.x.Shutdown(ctx) ... }" block of
\* exporterBundle.shutdown; failing are the sub-resources whose Shutdown
\* returns an error
shutdownOne(acc, name, failing) ==
    [called |-> TRUE,
     attempted |-> Append(acc.attempted, name),
     errs |-> IF name \in failing THEN Append(acc.errs, name) ELSE acc.errs]

\* an exporterBundle.shutdown that returns at the first error
shutdownFailFast(failing) ==
    LET a == shutdownOne(NoShut, "metricReader", failing)
        b == IF a.errs # <<>> THEN a ELSE shutdownOne(a, "metricExporter", failing)
    IN  IF b.errs # <<>> THEN b ELSE shutdownOne(b, "traceExporter", failing)

\* exporterBundle.shutdown: errs is what errors.Join receives, <<>> is nil
shutdown(failing) ==
    shutdownOne(shutdownOne(shutdownOne(NoShut, "metricReader", failing),
                            "metricExporter", failing),
                "traceExporter", failing)

\* a recordDrop that counts failed batches instead of spans
recordDropBatches(stats, n) == [stats EXCEPT !.dropped = @ + 1]

\* traceExporterStats.recordDrop
recordDrop(stats, n) ==
    IF n <= 0 THEN stats ELSE [stats EXCEPT !.dropped = @ + n]

\* traceExporterStats.recordError
recordError(stats, err) ==
    IF err = "" THEN stats
    ELSE [stats EXCEPT !.lastError = [message |-> err, time |-> stats.clock]]

\* the effect of spanExporterWithStats.ExportSpans on the stats, given the
\* error of inner.ExportSpans for a batch of n spans
ExportSpansStats(stats, n, err) ==
    IF err # "" THEN recordError(recordDrop(stats, n), err) ELSE stats

\* Snapshot().TraceDroppedSpans and the LastError of Snapshot().TraceExporter
TraceDroppedSpans(stats) == stats.dropped
statusSnapshot(stats) == stats.lastError

(***************************************************************************)
(* Diagnostics server (diagnostics.Server).  A string is the sequence of   *)
(* its characters; the scheme with its separating space, "Bearer " or      *)
(* "Basic ", counts as one character, and " " stands for any white space.  *)
(***************************************************************************)
CredChars == {" ", "s", "x"}

\* the strings over CredChars of length at most n
RECURSIVE Strings(_)
Strings(n) ==
    IF n = 0 THEN {<<>>}
    ELSE LET shorter == Strings(n - 1)
         IN  shorter \cup {Append(w, c) : w \in shorter, c \in CredChars}

\* the values of diagnostics.auth_token; <<>> is the empty string
Tokens == Strings(MaxCred - 1)

\* the values of r.Header.Get("Authorization"); <<>> is an absent header
Headers ==
    Strings(MaxCred)
        \cup {<<scheme>> \o w : scheme \in {"Bearer ", "Basic "}, w \in Strings(MaxCred)}

\* strings.HasPrefix(header, "Bearer ")
HasPrefix(header) == Len(header) >= 1 /\ header[1] = "Bearer "

\* strings.TrimSpace
RECURSIVE TrimSpace(_)
TrimSpace(w) ==
    IF w = <<>> THEN w
    ELSE IF Head(w) = " " THEN TrimSpace(Tail(w))
    ELSE IF w[Len(w)] = " " THEN TrimSpace(SubSeq(w, 1, Len(w) - 1))
    ELSE w

\* validAuth
validAuth(header, token) ==
    IF header = <<>> THEN FALSE
    ELSE IF ~HasPrefix(header) THEN FALSE
    ELSE TrimSpace(SubSeq(header, 2, Len(header))) = token

\* Server.HandleStatus: the status code and the snapshot written as body
HandleStatus(token, header, snap) ==
    IF token # <<>> /\ ~validAuth(header, token)
    THEN [status |-> 401, body |-> NoSnap]
    ELSE [status |-> 200, body |-> snap]

(***************************************************************************)
(* State.                                                                  *)
(***************************************************************************)
VARIABLES
    file,            \* content of the watched file
    evq,             \* fsnotify events not yet received by the watch loop
    nOps,            \* file-system operations so far
    reloadDebounce,  \* c.opts.reloadDebounce
    pending,         \* watchLoop's pending flag
    timer,           \* watchLoop's timer: armed, remaining ticks, value in C
    pc,              \* position of the watch loop goroutine
    loc,             \* locals of reloadRuntime / swapRuntime
    cancelled,       \* the watch context has been cancelled
    runtime,         \* c.runtime
    digest,          \* c.configDigest
    configReloads,   \* c.metricsState.configReloads
    rts,             \* every runtime constructed so far
    ext,             \* the external caller goroutine
    inFlight,        \* reloadRuntime invocations executing
    newCalls,        \* runtime.New invocations so far
    mgrShut,         \* runtimes on which swapRuntime has invoked Shutdown
    shutLog,         \* per runtime: completed Shutdown calls and their results
    sinceEvent,      \* ticks since the last relevant event was received
    burst,           \* events and reload attempts of the current burst
    att,             \* the latest reload attempt
    hist,            \* history: replacements of c.runtime, the configuration last
                     \* applied, the failed exports
    exporter,        \* the exporter bundle of the initial runtime and the clock
    watcher,         \* the fsnotify watcher: its channels, the Close calls on it
    boot,            \* the call of Init: its position, inputs and results
    diagClient,      \* requests to the diagnostics endpoints, their responses
    settings,        \* c.opts: the override configuration, the logger and its origin
    logger,          \* c.logger
    otelProviders,   \* the process-wide default tracer and meter providers
    mu,              \* c.mu: the holder of the write lock, the read locks held
    sampling,        \* the latest call of samplerFromConfig: its input and result
    instr,           \* the latest call of an instrumentation helper
    consumer,        \* a kafka.Consumer in Run: position, context, reader calls
    adapter,         \* a ticker.Adapter, its run loops and the Stop calls on it
    memory,          \* a runtime's r.cfg, the value Config() returned, their objects
    loading,         \* the latest call of config.Load: its loaders and results
    closing,         \* a runtime of its own, the Shutdown calls on it and their results
    building,        \* the latest newExporterBundle: the configuration, the options, the error
    instrumented     \* a runtime built for its instrumentation helpers

vars == <<file, evq, nOps, reloadDebounce, pending, timer, pc, loc, cancelled, runtime,
          digest, configReloads, rts, ext, inFlight, newCalls, mgrShut, shutLog,
          sinceEvent, burst, att, hist, exporter, watcher, boot, diagClient, settings,
          logger, otelProviders, mu, sampling, instr, consumer, adapter, memory, loading,
          closing, building, instrumented>>

\* the state of the Client and its runtimes, apart from the exporter bundle
lifecycle == <<file, evq, nOps, reloadDebounce, pending, timer, pc, loc, cancelled,
               runtime, digest, configReloads, rts, ext, inFlight, newCalls, mgrShut,
               shutLog, sinceEvent, burst, att, watcher, boot>>

\* the options and the logger of the Client, the providers registered as the
\* defaults of the process, and the lock of the Client
process == <<settings, logger, otelProviders, mu>>

\* the state of the Client, its runtimes and their servers and exporters
client == <<lifecycle, hist, exporter, diagClient, process>>

\* the state of the helpers a service uses beside the Client
library ==
    <<sampling, instr, consumer, adapter, memory, loading, closing, building, instrumented>>

Target == "observe.yaml"

\* identities of the runtimes: the initial one and at most one per attempt
Rids == 1..(MaxFsOps + 1)

\* fsnotify events on the watched directory
Events ==
    {[name |-> Target, op |-> "write"], [name |-> Target, op |-> "chmod"],
     [name |-> "other.yaml", op |-> "write"]}

\* a filter that looks at the name of the event alone
RelevantAnyOp(ev) == ev.name = Target

\* the two "continue" tests of watchLoop: the event is about the watched
\* file and its operation is a write, a create or a rename
Relevant(ev) == ev.name = Target /\ ev.op \in {"write", "create", "rename"}

NoLoc == [cfg |-> CfgPlain, digest |-> <<>>, rt |-> None, old |-> None]
\* no response received from a diagnostics endpoint
NoObs == [rt |-> None, snap |-> NoSnap]

\* no request handled by HandleStatus
NoReq == [done |-> FALSE, token |-> <<>>, header |-> <<>>, status |-> 0,
          body |-> NoSnap]
NoExt == [pc |-> "idle", rt |-> None, snap |-> NoSnap, snapSeq |-> 0]
NoAtt == [seq |-> 0, done |-> TRUE, file |-> Garbage, outcome |-> "none",
          newErr |-> FALSE, envFail |-> FALSE, since |-> 0,
          preCur |-> None, preDigest |-> <<>>, preCount |-> 0, preNew |-> 0,
          preMgr |-> {}, preSnap |-> NoSnap, postSnap |-> NoSnap,
          prevFile |-> Garbage, prevOutcome |-> "none"]

\* the helpers before their first call
LibraryInit ==
    /\ sampling = NoCall
    /\ instr = NoInstr
    /\ consumer = NoRun
    /\ adapter = NewAdapter
    /\ memory = NewMemory
    /\ loading = NoLoad
    /\ closing = NewRuntime
    /\ building = NoBundle
    /\ instrumented = NoRuntime

\* logging.FromConfig: a new adapter on every call; n is the reload attempt
\* that made the call, 0 for Init
FromConfig(n) == [kind |-> "config", call |-> n]

\* the adapter handed to WithLogger
GivenLogger == [kind |-> "given", call |-> 0]

\* a nil logging.Adapter
NoLogger == [kind |-> "nil", call |-> 0]

\* a nil *config.Config
NoOverride == [nil |-> TRUE, cfg |-> CfgPlain]

\* defaultOptions with the Option functions applied: o says whether
\* WithConfig(cfg) and WithLogger(adapter) are among them
optionsFrom(o, cfg) ==
    [overrideConfig |-> IF o.withConfig THEN [nil |-> FALSE, cfg |-> cfg] ELSE NoOverride,
     loggerOverride |-> o.withLogger,
     logger |-> IF o.withLogger THEN GivenLogger ELSE NoLogger]

\* Init without WithConfig and without WithLogger
Defaults == {[withConfig |-> FALSE, withLogger |-> FALSE]}

\* a loadConfig that runs the loaders whatever the options hold
optionsLoadConfigLoaders(o, content) == loadConfig(content)

\* options.loadConfig: the override configuration if there is one, else
\* config.Load over the loaders
optionsLoadConfig(o, content) ==
    IF ~o.overrideConfig.nil THEN [ok |-> TRUE, cfg |-> o.overrideConfig.cfg]
    ELSE loadConfig(content)

\* the logger Init settles on
initLogger(o) == IF o.loggerOverride THEN o.logger ELSE FromConfig(0)

\* c.mu with no holder
Unlocked == [writer |-> FALSE, readers |-> 0]

\* the state Init leaves behind when it returns a Client whose file holds
\* one of configs
InitAt(configs, debounces, given) ==
    \E cfg \in configs, d \in debounces, o \in given :
        LET built == New(cfg, TRUE, <<>>, 1)
            wired == InitMetrics(built.rt, TRUE)
        IN  /\ built.ok /\ wired.ok /\ configDigest(cfg).ok
            /\ file = Yaml(cfg)
            /\ evq = <<>>
            /\ nOps = 0
            /\ reloadDebounce = d
            /\ pending = FALSE
            /\ timer = [armed |-> FALSE, rem |-> 0, chan |-> FALSE]
            /\ pc = "select"
            /\ loc = NoLoc
            /\ cancelled = FALSE
            /\ runtime = 1
            /\ digest = configDigest(cfg).sum
            /\ configReloads = 0
            /\ rts = <<wired.rt>>
            /\ ext = NoExt
            /\ inFlight = 0
            /\ newCalls = 1
            /\ mgrShut = {}
            /\ shutLog = [r \in Rids |-> [calls |-> 0, firstErr |-> FALSE, lateErr |-> FALSE]]
            /\ sinceEvent = DebounceTicks
            /\ burst = [events |-> 0, attempts |-> 0]
            /\ att = NoAtt
            /\ hist = [swaps |-> 0, applied |-> cfg, exports |-> 0, failedSum |-> 0,
                       lastFailure |-> NoError, shutFailing |-> {}, overlap |-> 0]
            /\ exporter = newExporterBundle
            /\ watcher = [chans |-> "open", closes |-> 0]
            /\ boot = [pc |-> "done", client |-> TRUE, err |-> FALSE, envOK |-> TRUE,
                       startOK |-> TRUE, watchOK |-> TRUE]
            /\ diagClient = [first |-> NoObs, last |-> NoObs, req |-> NoReq]
            /\ settings = [optionsFrom(o, cfg) EXCEPT
                               !.logger = initLogger(optionsFrom(o, cfg))]
            /\ logger = initLogger(optionsFrom(o, cfg))
            /\ otelProviders = 1
            /\ mu = Unlocked
            /\ LibraryInit

\* Init with the watcher debouncing or not
InitWith(configs) == InitAt(configs, {0, DebounceTicks}, Defaults)

Init == InitWith(InitialConfigs)

\* Init with a reload debounce that is negative, zero or positive
InitAnyDebounce == InitAt(InitialConfigs, {-1, 0, DebounceTicks}, Defaults)

\* the process before it calls Init: the configuration file has some content
\* and there is neither a Client nor a runtime
BeforeInitAt(given, configs) ==
    \E o \in given, cfg \in configs :
       /\ file \in FileContents
       /\ reloadDebounce \in {0, DebounceTicks}
       /\ evq = <<>>
       /\ nOps = 0
       /\ pending = FALSE
       /\ timer = [armed |-> FALSE, rem |-> 0, chan |-> FALSE]
       /\ pc = "stopped"
       /\ loc = NoLoc
       /\ cancelled = FALSE
       /\ runtime = None
       /\ digest = <<>>
       /\ configReloads = 0
       /\ rts = <<>>
       /\ ext = NoExt
       /\ inFlight = 0
       /\ newCalls = 0
       /\ mgrShut = {}
       /\ shutLog = [r \in Rids |-> [calls |-> 0, firstErr |-> FALSE, lateErr |-> FALSE]]
       /\ sinceEvent = DebounceTicks
       /\ burst = [events |-> 0, attempts |-> 0]
       /\ att = NoAtt
       /\ hist = [swaps |-> 0, applied |-> CfgPlain, exports |-> 0, failedSum |-> 0,
                  lastFailure |-> NoError, shutFailing |-> {}, overlap |-> 0]
       /\ exporter = newExporterBundle
       /\ watcher = [chans |-> "closed", closes |-> 0]
       /\ boot = [pc |-> "init", client |-> FALSE, err |-> FALSE, envOK |-> TRUE,
                  startOK |-> TRUE, watchOK |-> TRUE]
       /\ diagClient = [first |-> NoObs, last |-> NoObs, req |-> NoReq]
       /\ settings = optionsFrom(o, IF o.withConfig THEN cfg ELSE CfgPlain)
       /\ logger = NoLogger
       /\ otelProviders = 0
       /\ mu = Unlocked
       /\ LibraryInit

\* the process before an Init without options
BeforeInit == BeforeInitAt(Defaults, {CfgPlain})

\* the process before an Init with or without WithConfig and WithLogger;
\* WithConfig takes any configuration, valid or not
BeforeInitAny ==
    BeforeInitAt([withConfig : BOOLEAN, withLogger : BOOLEAN], {CfgPlain, CfgDiagOn, CfgNaN})

\* an Init that treats a failure of startConfigWatcher like the others
InitReturnsWatchFatal(ld, built, wired, dg, watchOK) ==
    ld.ok /\ built.ok /\ wired.ok /\ dg.ok /\ watchOK

\* Init: TRUE iff it reaches "return client, nil"; every earlier return is
\* "return nil, err"
InitReturns(ld, built, wired, dg, watchOK) ==
    IF ~ld.ok THEN FALSE
    ELSE IF ~built.ok THEN FALSE
    ELSE IF ~wired.ok THEN FALSE
    ELSE IF ~dg.ok THEN FALSE
    ELSE TRUE

\* the call Init(ctx, opts...): envOK, startOK and watchOK say whether the
\* exporters, the runtime-metrics controller and the fsnotify watcher could
\* be set up
InitCall ==
    /\ boot.pc = "init"
    /\ \E envOK, startOK, watchOK \in BOOLEAN :
          LET ld    == optionsLoadConfig(settings, file)
              built == New(ld.cfg, envOK, <<>>, 1)
              wired == InitMetrics(built.rt, startOK)
              dg    == configDigest(ld.cfg)
              ok    == InitReturns(ld, built, wired, dg, watchOK)
          IN  /\ boot' = [pc |-> "done", client |-> ok, err |-> ~ok, envOK |-> envOK,
                          startOK |-> startOK, watchOK |-> watchOK]
              /\ newCalls' = IF ld.ok THEN 1 ELSE 0
              /\ rts' = IF ld.ok /\ built.ok THEN <<wired.rt>> ELSE <<>>
              /\ runtime' = IF ok THEN 1 ELSE None
              /\ digest' = IF ok THEN dg.sum ELSE <<>>
              /\ hist' = IF ok THEN [hist EXCEPT !.applied = ld.cfg] ELSE hist
              /\ pc' = IF ok /\ watchOK THEN "select" ELSE "stopped"
              /\ watcher' = IF ok /\ watchOK THEN [watcher EXCEPT !.chans = "open"]
                                              ELSE watcher
              /\ otelProviders' = IF ld.ok /\ built.registered THEN 1 ELSE otelProviders
              /\ logger' = IF ok THEN initLogger(settings) ELSE logger
              /\ settings' = IF ok THEN [settings EXCEPT !.logger = initLogger(settings)]
                                   ELSE settings
    /\ UNCHANGED <<file, evq, nOps, reloadDebounce, pending, timer, loc, cancelled,
                   configReloads, ext, inFlight, mgrShut, shutLog, sinceEvent, burst,
                   att, exporter, diagClient, mu, library>>

\* the Client of the scenarios about Shutdown calls
InitShutdown == InitWith({CfgPlain})

(***************************************************************************)
(* Environment: the file system, the clock and the timer.                  *)
(***************************************************************************)
\* a file-system operation on the watched directory, reported by fsnotify
\* while the watcher is open; a write of the watched file replaces its
\* content by one of contents
FsWrite(contents) ==
    /\ nOps < MaxFsOps
    /\ pc # "stopped"
    /\ watcher.chans = "open"
    /\ \E ev \in Events :
          /\ evq' = Append(evq, ev)
          /\ IF ev.name = Target /\ ev.op = "write"
                THEN \E c \in contents : file' = c
                ELSE file' = file
    /\ nOps' = nOps + 1
    /\ UNCHANGED <<reloadDebounce, pending, timer, pc, loc, cancelled, runtime, digest,
                   configReloads, rts, ext, inFlight, newCalls, mgrShut, shutLog,
                   sinceEvent, burst, att, hist, exporter, watcher, boot, diagClient,
                   process, library>>

FsOp == FsWrite(FileContents)

\* a watcher that does not deliver the events of the operations made while
\* reloadRuntime is executing
FsOpDuringLossy ==
    /\ nOps < MaxFsOps
    /\ pc # "stopped"
    /\ watcher.chans = "open"
    /\ \E ev \in Events :
          /\ evq' = IF inFlight > 0 THEN evq ELSE Append(evq, ev)
          /\ hist' = [hist EXCEPT !.overlap = IF inFlight > 0 /\ Relevant(ev)
                                                 THEN att.seq ELSE @]
          /\ IF ev.name = Target /\ ev.op = "write"
                THEN \E c \in FileContents : file' = c
                ELSE file' = file
    /\ nOps' = nOps + 1
    /\ UNCHANGED <<reloadDebounce, pending, timer, pc, loc, cancelled, runtime, digest,
                   configReloads, rts, ext, inFlight, newCalls, mgrShut, shutLog,
                   sinceEvent, burst, att, exporter, watcher, boot, diagClient, process,
                   library>>

\* FsOp with a record of the reload that was executing, if any, when the
\* event of a relevant operation was queued
FsOpDuring ==
    /\ nOps < MaxFsOps
    /\ pc # "stopped"
    /\ watcher.chans = "open"
    /\ \E ev \in Events :
          /\ evq' = Append(evq, ev)
          /\ hist' = [hist EXCEPT !.overlap = IF inFlight > 0 /\ Relevant(ev)
                                                 THEN att.seq ELSE @]
          /\ IF ev.name = Target /\ ev.op = "write"
                THEN \E c \in FileContents : file' = c
                ELSE file' = file
    /\ nOps' = nOps + 1
    /\ UNCHANGED <<reloadDebounce, pending, timer, pc, loc, cancelled, runtime, digest,
                   configReloads, rts, ext, inFlight, newCalls, mgrShut, shutLog,
                   sinceEvent, burst, att, exporter, watcher, boot, diagClient, process,
                   library>>

\* the same with the file contents of the shutdown scenarios
FsOpFew == FsWrite(FewContents)

\* fsnotify's reader goroutine ends on an error of the kernel interface and
\* closes the Events and Errors channels; an event it was sending is lost
WatcherFail ==
    /\ watcher.chans = "open"
    /\ pc # "stopped"
    /\ watcher' = [watcher EXCEPT !.chans = "closed"]
    /\ evq' = <<>>
    /\ UNCHANGED <<file, nOps, reloadDebounce, pending, timer, pc, loc, cancelled,
                   runtime, digest, configReloads, rts, ext, inFlight, newCalls,
                   mgrShut, shutLog, sinceEvent, burst, att, hist, exporter, boot,
                   diagClient, process, library>>

\* one clock tick; an armed timer expires before time moves past its deadline
Tick ==
    /\ ~(timer.armed /\ timer.rem = 0)
    /\ timer' = IF timer.armed THEN [timer EXCEPT !.rem = @ - 1] ELSE timer
    /\ sinceEvent' = IF sinceEvent < DebounceTicks THEN sinceEvent + 1 ELSE sinceEvent
    /\ UNCHANGED <<file, evq, nOps, reloadDebounce, pending, pc, loc, cancelled,
                   runtime, digest, configReloads, rts, ext, inFlight, newCalls,
                   mgrShut, shutLog, burst, att, hist, exporter, watcher, boot,
                   diagClient, process, library>>

\* the timer expires: the time value is made available on timer.C
TimerExpire ==
    /\ timer.armed /\ timer.rem = 0
    /\ timer' = [timer EXCEPT !.armed = FALSE, !.chan = TRUE]
    /\ UNCHANGED <<file, evq, nOps, reloadDebounce, pending, pc, loc, cancelled,
                   runtime, digest, configReloads, rts, ext, inFlight, newCalls,
                   mgrShut, shutLog, sinceEvent, burst, att, hist, exporter, watcher,
                   boot, diagClient, process, library>>

(***************************************************************************)
(* Client.watchLoop.                                                       *)
(***************************************************************************)
\* a loop that starts its handlers wherever it is (go c.reloadRuntime(ctx))
AtSelectAlways == TRUE

\* the loop goroutine is blocked in its select statement
AtSelect == pc = "select"

\* the call c.reloadRuntime(ctx): the loop enters reloadRuntime
CallReload ==
    /\ pc' = "load"
    /\ inFlight' = inFlight + 1
    /\ att' = [seq |-> att.seq + 1, done |-> FALSE, file |-> Garbage, outcome |-> "none",
               newErr |-> FALSE, envFail |-> FALSE, since |-> sinceEvent,
               preCur |-> runtime, preDigest |-> digest, preCount |-> configReloads,
               preNew |-> newCalls, preMgr |-> mgrShut,
               preSnap |-> SnapshotOf(rts[runtime], configReloads), postSnap |-> NoSnap,
               prevFile |-> att.file, prevOutcome |-> att.outcome]

\* a loop that debounces whatever c.opts.reloadDebounce is
EventRecvDebounced ==
    /\ AtSelect
    /\ evq # <<>>
    /\ evq' = Tail(evq)
    /\ LET ev == Head(evq) IN
       IF ~Relevant(ev)
       THEN UNCHANGED <<pending, timer, pc, inFlight, att, sinceEvent, burst>>
       ELSE /\ pending' = TRUE
            /\ timer' = resetTimer(timer, IF reloadDebounce < 0 THEN 0 ELSE reloadDebounce)
            /\ sinceEvent' = 0
            /\ burst' = IF burst.attempts > 0
                           THEN [events |-> 1, attempts |-> 0]
                           ELSE [burst EXCEPT !.events = @ + 1]
            /\ UNCHANGED <<pc, inFlight, att>>
    /\ UNCHANGED <<file, nOps, reloadDebounce, loc, cancelled, runtime, digest,
                   configReloads, rts, ext, newCalls, mgrShut, shutLog, hist, exporter,
                   watcher, boot, diagClient, process, library>>

\* case event := <-watcher.Events
EventRecv ==
    /\ AtSelect
    /\ evq # <<>>
    /\ evq' = Tail(evq)
    /\ LET ev == Head(evq) IN
       IF ~Relevant(ev)
       THEN UNCHANGED <<pending, timer, pc, inFlight, att, sinceEvent, burst>>
       ELSE IF reloadDebounce <= 0
       THEN /\ CallReload
            /\ burst' = [events |-> 1, attempts |-> 1]
            /\ UNCHANGED <<pending, timer, sinceEvent>>
       ELSE /\ pending' = TRUE
            /\ timer' = resetTimer(timer, reloadDebounce)
            /\ sinceEvent' = 0
            /\ burst' = IF burst.attempts > 0
                           THEN [events |-> 1, attempts |-> 0]
                           ELSE [burst EXCEPT !.events = @ + 1]
            /\ UNCHANGED <<pc, inFlight, att>>
    /\ UNCHANGED <<file, nOps, reloadDebounce, loc, cancelled, runtime, digest,
                   configReloads, rts, ext, newCalls, mgrShut, shutLog, hist, exporter,
                   watcher, boot, diagClient, process, library>>

\* case <-timer.C
TimerRecv ==
    /\ AtSelect
    /\ timer.chan
    /\ timer' = [timer EXCEPT !.chan = FALSE]
    /\ IF ~pending
       THEN UNCHANGED <<pending, pc, inFlight, att, burst>>
       ELSE /\ pending' = FALSE
            /\ CallReload
            /\ burst' = [burst EXCEPT !.attempts = @ + 1]
    /\ UNCHANGED <<file, evq, nOps, reloadDebounce, loc, cancelled, runtime, digest,
                   configReloads, rts, ext, newCalls, mgrShut, shutLog, sinceEvent,
                   hist, exporter, watcher, boot, diagClient, process, library>>

\* a return of watchLoop that skips the deferred watcher.Close()
CtxDoneNoClose ==
    /\ AtSelect
    /\ cancelled
    /\ pc' = "stopped"
    /\ timer' = [timer EXCEPT !.armed = FALSE]
    /\ UNCHANGED <<file, evq, nOps, reloadDebounce, pending, loc, cancelled, runtime,
                   digest, configReloads, rts, ext, inFlight, newCalls, mgrShut,
                   shutLog, sinceEvent, burst, att, hist, exporter, watcher, boot,
                   diagClient, process, library>>

\* the deferred calls of watchLoop: timer.Stop() and watcher.Close(), which
\* also closes the watcher's channels
Deferred ==
    /\ timer' = [timer EXCEPT !.armed = FALSE]
    /\ watcher' = [chans |-> "closed", closes |-> watcher.closes + 1]

\* case <-ctx.Done(): return
CtxDone ==
    /\ AtSelect
    /\ cancelled
    /\ pc' = "stopped"
    /\ Deferred
    /\ UNCHANGED <<file, evq, nOps, reloadDebounce, pending, loc, cancelled, runtime,
                   digest, configReloads, rts, ext, inFlight, newCalls, mgrShut,
                   shutLog, sinceEvent, burst, att, hist, exporter, boot, diagClient,
                   process, library>>

\* case event, ok := <-watcher.Events / case err, ok := <-watcher.Errors
\* with ok false: return
ChanClosedRecv ==
    /\ AtSelect
    /\ watcher.chans = "closed"
    /\ pc' = "stopped"
    /\ Deferred
    /\ UNCHANGED <<file, evq, nOps, reloadDebounce, pending, loc, cancelled, runtime,
                   digest, configReloads, rts, ext, inFlight, newCalls, mgrShut,
                   shutLog, sinceEvent, burst, att, hist, exporter, boot, diagClient,
                   process, library>>

(***************************************************************************)
(* Client.reloadRuntime and Client.swapRuntime, run by the loop goroutine. *)
(***************************************************************************)
\* a return statement of reloadRuntime
Return(outcome, envFail) ==
    /\ pc' = "select"
    /\ loc' = NoLoc
    /\ inFlight' = inFlight - 1
    /\ att' = [att EXCEPT !.done = TRUE, !.outcome = outcome,
                          !.file = IF pc = "load" THEN file ELSE @,
                          !.newErr = outcome \in {"buildFail", "metricsFail"},
                          !.envFail = envFail,
                          !.postSnap = IF outcome = "swapped"
                                          THEN SnapshotOf(rts[runtime], configReloads)
                                          ELSE @]

\* reloadRuntime between the comparison of the digests and runtime.New:
\* unless WithLogger was given, a logger built from the new configuration
\* replaces c.logger and c.opts.logger; reached says whether the reload got
\* past the comparison
ReplaceLogger(reached) ==
    IF reached /\ ~settings.loggerOverride
    THEN /\ logger' = FromConfig(att.seq)
         /\ settings' = [settings EXCEPT !.logger = FromConfig(att.seq)]
    ELSE UNCHANGED <<settings, logger>>

\* reloadRuntime that goes on with the returned value when loadConfig fails
ReloadLoadIgnoreErr ==
    /\ pc = "load"
    /\ LET res == optionsLoadConfig(settings, file)
           dg  == configDigest(res.cfg)
       IN  /\ ReplaceLogger(dg.ok /\ dg.sum # digest)
           /\ IF ~dg.ok THEN Return("digestFail", FALSE)
              ELSE IF dg.sum = digest THEN Return("unchanged", FALSE)
              ELSE /\ pc' = "build"
                   /\ loc' = [loc EXCEPT !.cfg = res.cfg, !.digest = dg.sum]
                   /\ att' = [att EXCEPT !.file = file]
                   /\ UNCHANGED inFlight
    /\ UNCHANGED <<file, evq, nOps, reloadDebounce, pending, timer, cancelled, runtime,
                   digest, configReloads, rts, ext, newCalls, mgrShut, shutLog,
                   sinceEvent, burst, hist, exporter, watcher, boot, diagClient,
                   otelProviders, mu,
                   library>>

\* reloadRuntime without the comparison of the digests
ReloadLoadNoCompare ==
    /\ pc = "load"
    /\ LET res == optionsLoadConfig(settings, file)
           dg  == configDigest(res.cfg)
       IN  /\ ReplaceLogger(res.ok /\ dg.ok)
           /\ IF ~res.ok THEN Return("loadFail", FALSE)
              ELSE IF ~dg.ok THEN Return("digestFail", FALSE)
              ELSE /\ pc' = "build"
                   /\ loc' = [loc EXCEPT !.cfg = res.cfg, !.digest = dg.sum]
                   /\ att' = [att EXCEPT !.file = file]
                   /\ UNCHANGED inFlight
    /\ UNCHANGED <<file, evq, nOps, reloadDebounce, pending, timer, cancelled, runtime,
                   digest, configReloads, rts, ext, newCalls, mgrShut, shutLog,
                   sinceEvent, burst, hist, exporter, watcher, boot, diagClient,
                   otelProviders, mu,
                   library>>

\* loadConfig, configDigest and the comparison with the stored digest
ReloadLoad ==
    /\ pc = "load"
    /\ LET res == optionsLoadConfig(settings, file)
           dg  == configDigest(res.cfg)
       IN  /\ ReplaceLogger(res.ok /\ dg.ok /\ dg.sum # digest)
           /\ IF ~res.ok THEN Return("loadFail", FALSE)
              ELSE IF ~dg.ok THEN Return("digestFail", FALSE)
              ELSE IF dg.sum = digest THEN Return("unchanged", FALSE)
              ELSE /\ pc' = "build"
                   /\ loc' = [loc EXCEPT !.cfg = res.cfg, !.digest = dg.sum]
                   /\ att' = [att EXCEPT !.file = file]
                   /\ UNCHANGED inFlight
    /\ UNCHANGED <<file, evq, nOps, reloadDebounce, pending, timer, cancelled, runtime,
                   digest, configReloads, rts, ext, newCalls, mgrShut, shutLog,
                   sinceEvent, burst, hist, exporter, watcher, boot, diagClient,
                   otelProviders, mu,
                   library>>

\* reloadRuntime that stores the new digest before it builds the runtime
ReloadBuildStoreDigest ==
    /\ pc = "build"
    /\ newCalls' = newCalls + 1
    /\ digest' = loc.digest
    /\ \E envOK \in BOOLEAN :
          LET res == New(loc.cfg, envOK, rts, newCalls + 1) IN
          /\ otelProviders' = IF res.registered THEN newCalls + 1 ELSE otelProviders
          /\ IF ~res.ok
             THEN /\ Return("buildFail", ~envOK)
                  /\ UNCHANGED rts
             ELSE /\ rts' = Append(rts, res.rt)
                  /\ loc' = [loc EXCEPT !.rt = Len(rts) + 1]
                  /\ pc' = "metrics"
                  /\ UNCHANGED <<inFlight, att>>
    /\ UNCHANGED <<file, evq, nOps, reloadDebounce, pending, timer, cancelled, runtime,
                   configReloads, ext, mgrShut, shutLog, sinceEvent, burst, hist,
                   exporter, watcher, boot, diagClient, settings, logger,
                   mu, library>>

\* rt, err := runtime.New(ctx, cfg)
ReloadBuild ==
    /\ pc = "build"
    /\ newCalls' = newCalls + 1
    /\ \E envOK \in BOOLEAN :
          LET res == New(loc.cfg, envOK, rts, newCalls + 1) IN
          /\ otelProviders' = IF res.registered THEN newCalls + 1 ELSE otelProviders
          /\ IF ~res.ok
             THEN /\ Return("buildFail", ~envOK)
                  /\ UNCHANGED rts
             ELSE /\ rts' = Append(rts, res.rt)
                  /\ loc' = [loc EXCEPT !.rt = Len(rts) + 1]
                  /\ pc' = "metrics"
                  /\ UNCHANGED <<inFlight, att>>
    /\ UNCHANGED <<file, evq, nOps, reloadDebounce, pending, timer, cancelled, runtime,
                   digest, configReloads, ext, mgrShut, shutLog, sinceEvent, burst,
                   hist, exporter, watcher, boot, diagClient, settings, logger,
                   mu, library>>

\* err = rt.InitMetrics(c.metricsState)
ReloadInitMetrics ==
    /\ pc = "metrics"
    /\ \E startOK \in BOOLEAN :
          LET res == InitMetrics(rts[loc.rt], startOK) IN
          /\ rts' = [rts EXCEPT ![loc.rt] = res.rt]
          /\ IF ~res.ok
             THEN Return("metricsFail", TRUE)
             ELSE /\ pc' = "swap"
                  /\ UNCHANGED <<loc, inFlight, att>>
    /\ UNCHANGED <<file, evq, nOps, reloadDebounce, pending, timer, cancelled, runtime,
                   digest, configReloads, ext, newCalls, mgrShut, shutLog, sinceEvent,
                   burst, hist, exporter, watcher, boot, diagClient, process, library>>

\* swapRuntime that shuts the old runtime down without having replaced it
ReloadSwapLate ==
    /\ pc = "swap"
    /\ loc' = [loc EXCEPT !.old = runtime]
    /\ pc' = IF runtime # None THEN "shutdownOld" ELSE "finish"
    /\ UNCHANGED <<file, evq, nOps, reloadDebounce, pending, timer, cancelled, digest,
                   configReloads, rts, ext, inFlight, newCalls, mgrShut, shutLog,
                   sinceEvent, burst, att, runtime, hist, exporter, watcher, boot,
                   diagClient, process, library>>

\* swapRuntime: the replacement of c.runtime under c.mu.Lock
ReloadSwap ==
    /\ pc = "swap"
    /\ runtime' = loc.rt
    /\ hist' = [hist EXCEPT !.swaps = @ + 1, !.applied = loc.cfg]
    /\ loc' = [loc EXCEPT !.old = runtime]
    /\ pc' = IF runtime # None THEN "shutdownOld" ELSE "finish"
    /\ UNCHANGED <<file, evq, nOps, reloadDebounce, pending, timer, cancelled, digest,
                   configReloads, rts, ext, inFlight, newCalls, mgrShut, shutLog,
                   sinceEvent, burst, att, exporter, watcher, boot, diagClient, process,
                   library>>

\* swapRuntime: old.Shutdown(shutdownCtx) is called and reaches once.Do
ReloadShutdownOld ==
    /\ pc = "shutdownOld"
    /\ mgrShut' = mgrShut \cup {loc.old}
    /\ IF OnceDo(rts[loc.old].once)
       THEN /\ rts' = [rts EXCEPT ![loc.old].once = "running"]
            /\ pc' = "shutBody"
       ELSE /\ pc' = "shutWait"
            /\ UNCHANGED rts
    /\ UNCHANGED <<file, evq, nOps, reloadDebounce, pending, timer, loc, cancelled,
                   runtime, digest, configReloads, ext, inFlight, newCalls, shutLog,
                   sinceEvent, burst, att, hist, exporter, watcher, boot, diagClient,
                   process, library>>

\* a completed Shutdown call on runtime r, returning an error or nil
LogCall(r, err) ==
    shutLog' = [shutLog EXCEPT ![r] =
                  [calls |-> @.calls + 1,
                   firstErr |-> IF @.calls = 0 THEN err ELSE @.firstErr,
                   lateErr |-> @.lateErr \/ (@.calls > 0 /\ err)]]

\* a swapRuntime that puts the old runtime back when its shutdown failed
LoopShutBodyUndo ==
    /\ pc = "shutBody"
    /\ rts' = [rts EXCEPT ![loc.old] = ShutdownBody(@)]
    /\ \E err \in BOOLEAN :
          /\ LogCall(loc.old, err)
          /\ runtime' = IF err THEN loc.old ELSE runtime
    /\ pc' = "finish"
    /\ UNCHANGED <<file, evq, nOps, reloadDebounce, pending, timer, loc, cancelled,
                   digest, configReloads, ext, inFlight, newCalls, mgrShut, sinceEvent,
                   burst, att, hist, exporter, watcher, boot, diagClient, process, library>>

\* the loop runs the function of once.Do to its end; the sub-resources may
\* fail or exceed constants.DefaultShutdownTimeout, which is logged
LoopShutBody ==
    /\ pc = "shutBody"
    /\ rts' = [rts EXCEPT ![loc.old] = ShutdownBody(@)]
    /\ \E err \in BOOLEAN : LogCall(loc.old, err)
    /\ pc' = "finish"
    /\ UNCHANGED <<file, evq, nOps, reloadDebounce, pending, timer, loc, cancelled,
                   runtime, digest, configReloads, ext, inFlight, newCalls, mgrShut,
                   sinceEvent, burst, att, hist, exporter, watcher, boot, diagClient,
                   process, library>>

\* once.Do returns to the loop without running the function, after the
\* running call (if any) has completed; Shutdown returns nil
LoopShutWait ==
    /\ pc = "shutWait"
    /\ rts[loc.old].once = "done"
    /\ LogCall(loc.old, FALSE)
    /\ pc' = "finish"
    /\ UNCHANGED <<file, evq, nOps, reloadDebounce, pending, timer, loc, cancelled,
                   runtime, digest, configReloads, rts, ext, inFlight, newCalls,
                   mgrShut, sinceEvent, burst, att, hist, exporter, watcher, boot,
                   diagClient, process, library>>

\* a counter kept by each runtime instead of the shared MetricsState: the
\* first increment of a fresh runtime yields one
ReloadIncrementPerRuntime ==
    /\ pc = "finish"
    /\ configReloads' = 1
    /\ pc' = "store"
    /\ UNCHANGED <<file, evq, nOps, reloadDebounce, pending, timer, loc, cancelled,
                   runtime, digest, rts, ext, inFlight, newCalls, mgrShut, shutLog,
                   sinceEvent, burst, att, hist, exporter, watcher, boot, diagClient,
                   process, library>>

\* c.metricsState.IncrementConfigReloads()
ReloadIncrement ==
    /\ pc = "finish"
    /\ configReloads' = configReloads + 1
    /\ pc' = "store"
    /\ UNCHANGED <<file, evq, nOps, reloadDebounce, pending, timer, loc, cancelled,
                   runtime, digest, rts, ext, inFlight, newCalls, mgrShut, shutLog,
                   sinceEvent, burst, att, hist, exporter, watcher, boot, diagClient,
                   process, library>>

\* a return of reloadRuntime that leaves c.configDigest as it was
ReloadFinishKeepDigest ==
    /\ pc = "store"
    /\ digest' = digest
    /\ Return("swapped", FALSE)
    /\ UNCHANGED <<file, evq, nOps, reloadDebounce, pending, timer, cancelled, runtime,
                   configReloads, rts, ext, newCalls, mgrShut, shutLog, sinceEvent,
                   burst, hist, exporter, watcher, boot, diagClient, process, library>>

\* c.configDigest = digest; return
ReloadFinish ==
    /\ pc = "store"
    /\ digest' = loc.digest
    /\ Return("swapped", FALSE)
    /\ UNCHANGED <<file, evq, nOps, reloadDebounce, pending, timer, cancelled, runtime,
                   configReloads, rts, ext, newCalls, mgrShut, shutLog, sinceEvent,
                   burst, hist, exporter, watcher, boot, diagClient, process, library>>

(***************************************************************************)
(* The external caller goroutine: Client.Runtime, Runtime.Snapshot,        *)
(* Runtime.Shutdown and Client.Shutdown.                                   *)
(***************************************************************************)
\* a reload is between its call and its return
Reloading == inFlight > 0

\* Client.Runtime(): the reference is read under c.mu.RLock
ExtRuntime ==
    /\ ext.pc = "idle"
    /\ ext' = [ext EXCEPT !.pc = "holding", !.rt = runtime]
    /\ UNCHANGED <<file, evq, nOps, reloadDebounce, pending, timer, pc, loc, cancelled,
                   runtime, digest, configReloads, rts, inFlight, newCalls, mgrShut,
                   shutLog, sinceEvent, burst, att, hist, exporter, watcher, boot,
                   diagClient, process, library>>

\* Snapshot() on the runtime the caller holds
ExtSnapshot ==
    /\ ext.pc = "holding"
    /\ ext.rt # None
    /\ ext' = [ext EXCEPT !.snap = SnapshotOf(rts[ext.rt], configReloads),
                          !.snapSeq = IF Reloading THEN att.seq ELSE 0]
    /\ UNCHANGED <<file, evq, nOps, reloadDebounce, pending, timer, pc, loc, cancelled,
                   runtime, digest, configReloads, rts, inFlight, newCalls, mgrShut,
                   shutLog, sinceEvent, burst, att, hist, exporter, watcher, boot,
                   diagClient, process, library>>

(***************************************************************************)
(* swapRuntime and Client.Runtime with the steps on c.mu apart: Lock waits *)
(* until no reader holds the lock, RLock until the writer has released it. *)
(***************************************************************************)
\* c.mu.Lock()
SwapLock ==
    /\ pc = "swap"
    /\ ~mu.writer /\ mu.readers = 0
    /\ mu' = [mu EXCEPT !.writer = TRUE]
    /\ pc' = "swapLocked"
    /\ UNCHANGED <<file, evq, nOps, reloadDebounce, pending, timer, loc, cancelled, runtime,
                   digest, configReloads, rts, ext, inFlight, newCalls, mgrShut, shutLog,
                   sinceEvent, burst, att, hist, exporter, watcher, boot, diagClient,
                   settings, logger, otelProviders, library>>

\* old := c.runtime; c.runtime = newRuntime
SwapReplace ==
    /\ pc = "swapLocked"
    /\ runtime' = loc.rt
    /\ hist' = [hist EXCEPT !.swaps = @ + 1, !.applied = loc.cfg]
    /\ loc' = [loc EXCEPT !.old = runtime]
    /\ pc' = "swapReplaced"
    /\ UNCHANGED <<file, evq, nOps, reloadDebounce, pending, timer, cancelled, digest,
                   configReloads, rts, ext, inFlight, newCalls, mgrShut, shutLog,
                   sinceEvent, burst, att, exporter, watcher, boot, diagClient, process,
                   library>>

\* an unlock deferred to the return of swapRuntime: the function goes on to
\* the shutdown of the old runtime with the lock held
SwapUnlockDeferred ==
    /\ pc = "swapReplaced"
    /\ mu' = mu
    /\ pc' = IF loc.old # None THEN "shutdownOld" ELSE "finish"
    /\ UNCHANGED <<file, evq, nOps, reloadDebounce, pending, timer, loc, cancelled, runtime,
                   digest, configReloads, rts, ext, inFlight, newCalls, mgrShut, shutLog,
                   sinceEvent, burst, att, hist, exporter, watcher, boot, diagClient,
                   settings, logger, otelProviders, library>>

\* c.mu.Unlock()
SwapUnlock ==
    /\ pc = "swapReplaced"
    /\ mu' = [mu EXCEPT !.writer = FALSE]
    /\ pc' = IF loc.old # None THEN "shutdownOld" ELSE "finish"
    /\ UNCHANGED <<file, evq, nOps, reloadDebounce, pending, timer, loc, cancelled, runtime,
                   digest, configReloads, rts, ext, inFlight, newCalls, mgrShut, shutLog,
                   sinceEvent, burst, att, hist, exporter, watcher, boot, diagClient,
                   settings, logger, otelProviders, library>>

\* the caller enters Client.Runtime() and arrives at c.mu.RLock()
RuntimeCall ==
    /\ ext.pc = "idle"
    /\ ext' = [ext EXCEPT !.pc = "rlock"]
    /\ UNCHANGED <<file, evq, nOps, reloadDebounce, pending, timer, pc, loc, cancelled,
                   runtime, digest, configReloads, rts, inFlight, newCalls, mgrShut,
                   shutLog, sinceEvent, burst, att, hist, exporter, watcher, boot,
                   diagClient, process, library>>

\* c.mu.RLock() returns
RuntimeRLock ==
    /\ ext.pc = "rlock"
    /\ ~mu.writer
    /\ mu' = [mu EXCEPT !.readers = @ + 1]
    /\ ext' = [ext EXCEPT !.pc = "rlocked"]
    /\ UNCHANGED <<file, evq, nOps, reloadDebounce, pending, timer, pc, loc, cancelled,
                   runtime, digest, configReloads, rts, inFlight, newCalls, mgrShut,
                   shutLog, sinceEvent, burst, att, hist, exporter, watcher, boot,
                   diagClient, settings, logger, otelProviders, library>>

\* return c.runtime, with the deferred c.mu.RUnlock()
RuntimeReturn ==
    /\ ext.pc = "rlocked"
    /\ mu' = [mu EXCEPT !.readers = @ - 1]
    /\ ext' = [ext EXCEPT !.pc = "holding", !.rt = runtime]
    /\ UNCHANGED <<file, evq, nOps, reloadDebounce, pending, timer, pc, loc, cancelled,
                   runtime, digest, configReloads, rts, inFlight, newCalls, mgrShut,
                   shutLog, sinceEvent, burst, att, hist, exporter, watcher, boot,
                   diagClient, settings, logger, otelProviders, library>>

\* the caller drops its reference
ExtRelease ==
    /\ ext.pc = "holding"
    /\ ext' = NoExt
    /\ UNCHANGED <<file, evq, nOps, reloadDebounce, pending, timer, pc, loc, cancelled,
                   runtime, digest, configReloads, rts, inFlight, newCalls, mgrShut,
                   shutLog, sinceEvent, burst, att, hist, exporter, watcher, boot,
                   diagClient, process, library>>

\* Shutdown(ctx) on runtime r reaches once.Do
EnterShutdown(r) ==
    IF OnceDo(rts[r].once)
    THEN /\ rts' = [rts EXCEPT ![r].once = "running"]
         /\ ext' = [ext EXCEPT !.pc = "shutBody", !.rt = r]
    ELSE /\ ext' = [ext EXCEPT !.pc = "shutWait", !.rt = r]
         /\ UNCHANGED rts

\* Shutdown() on the runtime the caller holds
ExtShutdown ==
    /\ ext.pc = "holding"
    /\ ext.rt # None
    /\ shutLog[ext.rt].calls < MaxCalls
    /\ EnterShutdown(ext.rt)
    /\ UNCHANGED <<file, evq, nOps, reloadDebounce, pending, timer, pc, loc, cancelled,
                   runtime, digest, configReloads, inFlight, newCalls, mgrShut, shutLog,
                   sinceEvent, burst, att, hist, exporter, watcher, boot, diagClient,
                   process, library>>

\* the caller runs the function of once.Do to its end
ExtShutBody ==
    /\ ext.pc = "shutBody"
    /\ rts' = [rts EXCEPT ![ext.rt] = ShutdownBody(@)]
    /\ \E err \in BOOLEAN : LogCall(ext.rt, err)
    /\ ext' = [ext EXCEPT !.pc = "holding"]
    /\ UNCHANGED <<file, evq, nOps, reloadDebounce, pending, timer, pc, loc, cancelled,
                   runtime, digest, configReloads, inFlight, newCalls, mgrShut,
                   sinceEvent, burst, att, hist, exporter, watcher, boot, diagClient,
                   process, library>>

\* once.Do returns to the caller without running the function; Shutdown returns nil
ExtShutWait ==
    /\ ext.pc = "shutWait"
    /\ rts[ext.rt].once = "done"
    /\ LogCall(ext.rt, FALSE)
    /\ ext' = [ext EXCEPT !.pc = "holding"]
    /\ UNCHANGED <<file, evq, nOps, reloadDebounce, pending, timer, pc, loc, cancelled,
                   runtime, digest, configReloads, rts, inFlight, newCalls, mgrShut,
                   sinceEvent, burst, att, hist, exporter, watcher, boot, diagClient,
                   process, library>>

\* Client.Shutdown: c.watchCancel()
ClientShutdownCancel ==
    /\ ext.pc = "idle"
    /\ ~cancelled
    /\ cancelled' = TRUE
    /\ ext' = [ext EXCEPT !.pc = "clientShutdown"]
    /\ UNCHANGED <<file, evq, nOps, reloadDebounce, pending, timer, pc, loc, runtime,
                   digest, configReloads, rts, inFlight, newCalls, mgrShut, shutLog,
                   sinceEvent, burst, att, hist, exporter, watcher, boot, diagClient,
                   process, library>>

\* Client.Shutdown: c.Runtime().Shutdown(ctx)
ClientShutdownCall ==
    /\ ext.pc = "clientShutdown"
    /\ EnterShutdown(runtime)
    /\ UNCHANGED <<file, evq, nOps, reloadDebounce, pending, timer, pc, loc, cancelled,
                   runtime, digest, configReloads, inFlight, newCalls, mgrShut, shutLog,
                   sinceEvent, burst, att, hist, exporter, watcher, boot, diagClient,
                   process, library>>

(***************************************************************************)
(* A client of the diagnostics endpoints.                                  *)
(***************************************************************************)
\* GET /observe/status on the listener of a runtime that has one (no auth
\* token configured): the response carries that runtime's Snapshot().  The
\* client asks some runtime, and then the same runtime once more.
DiagRequest ==
    /\ diagClient.last.rt = None
    /\ \E r \in DOMAIN rts :
          /\ rts[r].diag
          /\ diagClient.first.rt \in {None, r}
          /\ LET obs == [rt |-> r, snap |-> SnapshotOf(rts[r], configReloads)]
             IN  diagClient' = IF diagClient.first.rt = None
                            THEN [diagClient EXCEPT !.first = obs]
                            ELSE [diagClient EXCEPT !.last = obs]
    /\ UNCHANGED <<lifecycle, hist, exporter, process, library>>

\* NewServer(cfg, provider) with cfg.AuthToken = token and the current
\* runtime as provider, and one call of its HandleStatus
HandleStatusCall ==
    /\ ~diagClient.req.done
    /\ \E token \in Tokens, header \in Headers :
          LET res == HandleStatus(token, header, SnapshotOf(rts[runtime], configReloads))
          IN  diagClient' = [diagClient EXCEPT !.req = [done |-> TRUE, token |-> token,
                                            header |-> header, status |-> res.status,
                                            body |-> res.body]]
    /\ UNCHANGED <<lifecycle, hist, exporter, process, library>>

(***************************************************************************)
(* The span processor exporting batches through the initial runtime.       *)
(***************************************************************************)
\* spanExporterWithStats.ExportSpans on a batch of n spans; the clock moves
\* on between two calls
ExportSpans ==
    /\ hist.exports < MaxExports
    /\ \E n \in 0..MaxBatch, err \in ExportErrors :
          /\ exporter' = [ExportSpansStats(exporter, n, err) EXCEPT !.clock = @ + 1]
          /\ hist' = [hist EXCEPT
                         !.exports = @ + 1,
                         !.failedSum = IF err # "" THEN @ + n ELSE @,
                         !.lastFailure = IF err # ""
                                            THEN [message |-> err, time |-> exporter.clock]
                                            ELSE @]
    /\ UNCHANGED <<lifecycle, diagClient, process, library>>

\* exporterBundle.shutdown, called once through Runtime.Shutdown
BundleShutdown ==
    /\ ~exporter.shut.called
    /\ \E failing \in SUBSET SubResources :
          /\ exporter' = [exporter EXCEPT !.shut = shutdown(failing)]
          /\ hist' = [hist EXCEPT !.shutFailing = failing]
    /\ UNCHANGED <<lifecycle, diagClient, process, library>>

(***************************************************************************)
(* The sampler of a runtime.                                               *)
(***************************************************************************)
\* one call of samplerFromConfig
SamplerCall ==
    /\ \E cfg \in SamplingConfigs :
          sampling' = [done |-> TRUE, cfg |-> cfg, ok |-> samplerFromConfig(cfg)]
    /\ UNCHANGED <<client, instr, consumer, adapter, memory, loading, closing, building,
                   instrumented>>

(***************************************************************************)
(* A service calling the instrumentation helpers.                          *)
(***************************************************************************)
\* one call of worker.Helper.Instrument, of messaging.Helper.InstrumentPublish
\* or of messaging.Helper.InstrumentConsume
InstrumentCall ==
    /\ \E method \in {"Instrument", "InstrumentPublish", "InstrumentConsume"},
          helperNil \in BOOLEAN, a \in {"", "sync"}, b \in {"", "orders"},
          fnErr \in FnErrors :
          LET res == CASE method = "Instrument" -> Instrument(helperNil, a, b, fnErr)
                       [] method = "InstrumentPublish" ->
                             InstrumentPublish(helperNil, a, b, fnErr)
                       [] method = "InstrumentConsume" ->
                             InstrumentConsume(helperNil, a, b, fnErr)
          IN  instr' = [done |-> TRUE, method |-> method, helperNil |-> helperNil,
                        fnErr |-> fnErr, ret |-> res.ret, tel |-> res.tel]
    /\ UNCHANGED <<client, sampling, consumer, adapter, memory, loading, closing, building,
                   instrumented>>

(***************************************************************************)
(* Consumer.Run and its environment: the reader, the handler, the context. *)
(***************************************************************************)
Logged(ev, err) == Append(consumer.log, [ev |-> ev, msg |-> consumer.msg, err |-> err])

RunReturns(err) == consumer' = [consumer EXCEPT !.pc = "returned", !.ret = err]

\* NewConsumerWith and the entry of Run: c.validate(handler), c.reader.Config()
RunValidate ==
    /\ consumer.pc = "new"
    /\ \E handlerNil, readerNil, workerNil, messagingNil \in BOOLEAN :
          LET err == validate(handlerNil, readerNil)
          IN  consumer' = [consumer EXCEPT
                              !.workerNil = workerNil, !.messagingNil = messagingNil,
                              !.pc = IF err # NoErr THEN "returned" ELSE "loop",
                              !.ret = err]
    /\ UNCHANGED <<client, sampling, instr, adapter, memory, loading, closing, building,
                   instrumented>>

\* somebody cancels the context Run was given
CtxCancel ==
    /\ consumer.pc \notin {"new", "returned"}
    /\ ~consumer.cancelled
    /\ consumer' = [consumer EXCEPT !.cancelled = TRUE]
    /\ UNCHANGED <<client, sampling, instr, adapter, memory, loading, closing, building,
                   instrumented>>

\* Run: the head of the loop, ctx.Err()
RunCtxErr ==
    /\ consumer.pc = "loop"
    /\ IF consumer.cancelled
          THEN RunReturns(ErrWrap("context canceled", "context error"))
          ELSE consumer' = [consumer EXCEPT !.pc = "fetch"]
    /\ UNCHANGED <<client, sampling, instr, adapter, memory, loading, closing, building,
                   instrumented>>

\* Run: c.reader.FetchMessage(ctx) delivers the next message or fails, with
\* the context's error once the context is cancelled
RunFetch ==
    /\ consumer.pc = "fetch"
    /\ \/ /\ consumer.msg < MaxMsgs
          /\ consumer' = [consumer EXCEPT
                              !.pc = "process", !.msg = @ + 1,
                              !.log = Append(@, [ev |-> "fetch", msg |-> consumer.msg + 1,
                                                 err |-> ""])]
       \/ /\ consumer.cancelled
          /\ RunReturns(ErrWrap("context canceled", "context error"))
       \/ RunReturns(ErrWrap("broker unavailable", "fetch kafka message"))
    /\ UNCHANGED <<client, sampling, instr, adapter, memory, loading, closing, building,
                   instrumented>>

\* a Run that commits whatever the handler returned
RunProcessCommitAll ==
    /\ consumer.pc = "process"
    /\ \E handlerErr \in FnErrors :
          consumer' = [consumer EXCEPT !.pc = "commit", !.log = Logged("handle", handlerErr)]
    /\ UNCHANGED <<client, sampling, instr, adapter, memory, loading, closing, building,
                   instrumented>>

\* Run: c.processMessage(ctx, cfg, msg, handler)
RunProcess ==
    /\ consumer.pc = "process"
    /\ \E handlerErr \in FnErrors :
          LET res == processMessage(consumer.workerNil, consumer.messagingNil,
                                    "orders-job", "orders", handlerErr)
              log == IF res.calls = 1 THEN Logged("handle", handlerErr)
                     ELSE Logged("handle", handlerErr) \o
                             <<[ev |-> "handle", msg |-> consumer.msg, err |-> handlerErr]>>
          IN  consumer' = [consumer EXCEPT
                              !.log = log,
                              !.pc = IF res.ret # "" THEN "returned" ELSE "commit",
                              !.ret = IF res.ret # "" THEN ErrNew(res.ret) ELSE @]
    /\ UNCHANGED <<client, sampling, instr, adapter, memory, loading, closing, building,
                   instrumented>>

\* Run: c.commit(ctx, msg)
RunCommit ==
    /\ consumer.pc = "commit"
    /\ \E ok \in BOOLEAN :
          consumer' = [consumer EXCEPT
                          !.log = Logged("commit", IF ok THEN "" ELSE "commit refused"),
                          !.pc = IF ok THEN "loop" ELSE "returned",
                          !.ret = IF ok THEN @
                                  ELSE ErrWrap("commit refused", "commit kafka message")]
    /\ UNCHANGED <<client, sampling, instr, adapter, memory, loading, closing, building,
                   instrumented>>

(***************************************************************************)
(* The ticker adapter: Start and Stop calls from any goroutine, the run    *)
(* loops, the contexts and the ticker.                                     *)
(***************************************************************************)
\* a call of Adapter.Start; the lock is held from the check to the return
StartCall ==
    /\ ~adapter.panicked
    /\ adapter.lastStart.n < MaxStarts
    /\ \E fnNil \in BOOLEAN :
          LET n   == adapter.lastStart.n + 1
              res == Start(adapter, n, fnNil)
          IN  adapter' = [res.a EXCEPT
                             !.lastStart = [n |-> n, fnNil |-> fnNil,
                                            wasRunning |-> adapter.running,
                                            ret |-> res.ret,
                                            same |-> Fields(res.a) = Fields(adapter)]]
    /\ UNCHANGED <<client, sampling, instr, consumer, memory, loading, closing, building,
                   instrumented>>

\* the context given to Start is cancelled
StartCtxCancel ==
    /\ ~adapter.panicked
    /\ \E l \in 1..MaxStarts :
          /\ Active(adapter.loops[l]) /\ ~adapter.loops[l].ctxDone
          /\ adapter' = [adapter EXCEPT !.loops[l].ctxDone = TRUE]
    /\ UNCHANGED <<client, sampling, instr, consumer, memory, loading, closing, building,
                   instrumented>>

\* run: a.newTicker(a.cfg.Interval) and the entry of the loop
RunBegin ==
    /\ ~adapter.panicked
    /\ \E l \in 1..MaxStarts :
          /\ adapter.loops[l].pc = "spawned"
          /\ adapter' = [adapter EXCEPT !.loops[l].pc = "select"]
    /\ UNCHANGED <<client, sampling, instr, consumer, memory, loading, closing, building,
                   instrumented>>

\* run: case <-ticker.C(), up to the call of fn inside a.helper.Instrument
RunTick ==
    /\ ~adapter.panicked
    /\ \E l \in 1..MaxStarts :
          /\ adapter.loops[l].pc = "select"
          /\ adapter' = [adapter EXCEPT !.loops[l].pc = "job"]
    /\ UNCHANGED <<client, sampling, instr, consumer, memory, loading, closing, building,
                   instrumented>>

\* run: fn returns, Instrument returns its error, the ErrorHandler is called
RunJobEnd ==
    /\ ~adapter.panicked
    /\ \E l \in 1..MaxStarts :
          /\ adapter.loops[l].pc = "job"
          /\ adapter' = [adapter EXCEPT !.loops[l].pc = "select"]
    /\ UNCHANGED <<client, sampling, instr, consumer, memory, loading, closing, building,
                   instrumented>>

\* run: case <-ctx.Done(): return; the deferred ticker.Stop()
RunCtxDone ==
    /\ ~adapter.panicked
    /\ \E l \in 1..MaxStarts :
          /\ adapter.loops[l].pc = "select" /\ adapter.loops[l].ctxDone
          /\ adapter' = [adapter EXCEPT !.loops[l].pc = "markStopped"]
    /\ UNCHANGED <<client, sampling, instr, consumer, memory, loading, closing, building,
                   instrumented>>

\* run: the deferred a.markStopped()
RunMarkStopped ==
    /\ ~adapter.panicked
    /\ \E l \in 1..MaxStarts :
          /\ adapter.loops[l].pc = "markStopped"
          /\ adapter' = markStopped(adapter, l)
    /\ UNCHANGED <<client, sampling, instr, consumer, memory, loading, closing, building,
                   instrumented>>

\* run: the deferred a.wg.Done(); a counter of zero releases the waiters
RunWgDone ==
    /\ ~adapter.panicked
    /\ \E l \in 1..MaxStarts :
          /\ adapter.loops[l].pc = "wgDone"
          /\ adapter' = wgDone(adapter, l)
    /\ UNCHANGED <<client, sampling, instr, consumer, memory, loading, closing, building,
                   instrumented>>

\* a call of Adapter.Stop: the locked read of a.cancel and a.running, and the
\* return when the adapter is not running
StopBegin ==
    /\ ~adapter.panicked
    /\ adapter.nStops < MaxStops
    /\ LET i == adapter.nStops + 1
       IN  adapter' = [adapter EXCEPT
              !.nStops = i,
              !.stops[i] = [NoStop EXCEPT
                  !.pc = IF adapter.running THEN "cancel" ELSE "returned",
                  !.running = adapter.running, !.cancel = adapter.cancel,
                  !.after = After(adapter, adapter.cancel)]]
    /\ UNCHANGED <<client, sampling, instr, consumer, memory, loading, closing, building,
                   instrumented>>

\* the context given to Stop ends, at the earliest when Stop is called
StopCtxDone ==
    /\ ~adapter.panicked
    /\ \E i \in 1..MaxStops :
          /\ adapter.stops[i].pc \in {"cancel", "select"} /\ ~adapter.stops[i].ctxDone
          /\ adapter' = [adapter EXCEPT
                 !.stops[i].ctxDone = TRUE,
                 !.stops[i].ctxFirst = /\ adapter.stops[i].cancel # 0
                                       /\ Active(adapter.loops[adapter.stops[i].cancel])]
    /\ UNCHANGED <<client, sampling, instr, consumer, memory, loading, closing, building,
                   instrumented>>

\* Stop: cancel(), make(chan struct{}) and the go statement
StopCancel ==
    /\ ~adapter.panicked
    /\ \E i \in 1..MaxStops :
          /\ adapter.stops[i].pc = "cancel"
          /\ LET c == adapter.stops[i].cancel
             IN  adapter' = [adapter EXCEPT
                    !.stops[i].pc = "select", !.stops[i].waiter = "spawned",
                    !.loops = IF c # 0 THEN [@ EXCEPT ![c].ctxDone = TRUE] ELSE @]
    /\ UNCHANGED <<client, sampling, instr, consumer, memory, loading, closing, building,
                   instrumented>>

\* the goroutine of Stop: a.wg.Wait() returns at once on a zero counter and
\* parks otherwise; then close(done)
WaitEnter ==
    /\ ~adapter.panicked
    /\ \E i \in 1..MaxStops :
          /\ adapter.stops[i].waiter = "spawned"
          /\ adapter' = [adapter EXCEPT
                 !.stops[i].waiter = IF adapter.wg = 0 THEN "closed" ELSE "parked"]
    /\ UNCHANGED <<client, sampling, instr, consumer, memory, loading, closing, building,
                   instrumented>>

\* the goroutine of Stop: a released a.wg.Wait() returns, or panics when the
\* WaitGroup has been reused in the meantime; then close(done)
WaitWake ==
    /\ ~adapter.panicked
    /\ \E i \in 1..MaxStops :
          /\ adapter.stops[i].waiter = "released"
          /\ adapter' = IF adapter.wg # 0
                            THEN [adapter EXCEPT !.panicked = TRUE]
                            ELSE [adapter EXCEPT !.stops[i].waiter = "closed"]
    /\ UNCHANGED <<client, sampling, instr, consumer, memory, loading, closing, building,
                   instrumented>>

\* Stop: case <-ctx.Done()
StopSelectCtx ==
    /\ ~adapter.panicked
    /\ \E i \in 1..MaxStops :
          /\ adapter.stops[i].pc = "select" /\ adapter.stops[i].ctxDone
          /\ adapter' = [adapter EXCEPT
                 !.stops[i].pc = "returned",
                 !.stops[i].ret = ErrWrap("context deadline exceeded", "stop ticker adapter"),
                 !.stops[i].after = After(adapter, adapter.stops[i].cancel)]
    /\ UNCHANGED <<client, sampling, instr, consumer, memory, loading, closing, building,
                   instrumented>>

\* Stop: case <-done
StopSelectDone ==
    /\ ~adapter.panicked
    /\ \E i \in 1..MaxStops :
          /\ adapter.stops[i].pc = "select" /\ adapter.stops[i].waiter = "closed"
          /\ adapter' = [adapter EXCEPT
                 !.stops[i].pc = "returned",
                 !.stops[i].after = After(adapter, adapter.stops[i].cancel)]
    /\ UNCHANGED <<client, sampling, instr, consumer, memory, loading, closing, building,
                   instrumented>>

(***************************************************************************)
(* A caller of Runtime.Config changing the value it was given.             *)
(***************************************************************************)
\* cfg := rt.Config()
ConfigCall ==
    /\ ~memory.got
    /\ memory' = Config(memory)
    /\ UNCHANGED <<client, sampling, instr, consumer, adapter, loading, closing, building,
                   instrumented>>

\* cfg.Service.Name = v
SetName ==
    /\ memory.got
    /\ \E v \in {"svc", "mutated"} : memory' = [memory EXCEPT !.copy.name = v]
    /\ UNCHANGED <<client, sampling, instr, consumer, adapter, loading, closing, building,
                   instrumented>>

\* cfg.Service.Attributes[k] = v
SetAttribute ==
    /\ memory.got /\ memory.copy.attributes # 0
    /\ \E v \in {"core", "mutated"} :
          memory' = [memory EXCEPT !.maps[memory.copy.attributes] = v]
    /\ UNCHANGED <<client, sampling, instr, consumer, adapter, loading, closing, building,
                   instrumented>>

\* cfg.Service.Attributes = map[string]string{k: v}
NewAttributes ==
    /\ memory.got /\ memory.used < 1 + MaxAllocs
    /\ memory' = [memory EXCEPT !.used = @ + 1, !.copy.attributes = memory.used + 1,
                                 !.maps[memory.used + 1] = "mutated"]
    /\ UNCHANGED <<client, sampling, instr, consumer, adapter, loading, closing, building,
                   instrumented>>

\* cfg.Exporters.OTLP.Endpoint = v
SetEndpoint ==
    /\ memory.got /\ memory.copy.otlp # 0
    /\ \E v \in {"collector:4317", "elsewhere:4317"} :
          memory' = [memory EXCEPT !.otlp[memory.copy.otlp].endpoint = v]
    /\ UNCHANGED <<client, sampling, instr, consumer, adapter, loading, closing, building,
                   instrumented>>

\* cfg.Exporters.OTLP.Headers[k] = v
SetHeader ==
    /\ memory.got /\ memory.copy.otlp # 0
    /\ \E v \in {"token", "mutated"} :
          memory' = [memory EXCEPT !.otlp[memory.copy.otlp].headers = v]
    /\ UNCHANGED <<client, sampling, instr, consumer, adapter, loading, closing, building,
                   instrumented>>

\* cfg.Exporters.OTLP = &config.OTLPConfig{...}, or = nil
NewOTLP ==
    /\ memory.got
    /\ \/ /\ memory.used < 1 + MaxAllocs
          /\ memory' = [memory EXCEPT
                !.used = @ + 1, !.copy.otlp = memory.used + 1,
                !.otlp[memory.used + 1] = [endpoint |-> "elsewhere:4317",
                                           headers |-> "mutated"]]
       \/ memory' = [memory EXCEPT !.copy.otlp = 0]
    /\ UNCHANGED <<client, sampling, instr, consumer, adapter, loading, closing, building,
                   instrumented>>

(***************************************************************************)
(* A caller of config.Load.                                                *)
(***************************************************************************)
LoadCall ==
    /\ ~loading.done
    /\ \E loaders \in SeqsUpTo(Loaders, MaxLoaders) :
          LET res == Load(loaders)
          IN  loading' = [done |-> TRUE, loaders |-> loaders,
                          cfg |-> [name |-> res.cfg.name, endpoint |-> res.cfg.endpoint,
                                   mode |-> res.cfg.mode],
                          err |-> res.err]
    /\ UNCHANGED <<client, sampling, instr, consumer, adapter, memory, closing, building,
                   instrumented>>

(***************************************************************************)
(* Runtime.Shutdown called on a runtime that is not the Client's.          *)
(***************************************************************************)
\* r.Shutdown(ctx): before the first call the sub-resources the runtime owns
\* and those that will fail are chosen
ShutdownCall ==
    /\ closing.calls < MaxCalls
    /\ \E owned \in SUBSET {Owned[i] : i \in DOMAIN Owned} :
       \E failing \in SUBSET owned :
          closing' = IF closing.calls = 0
                        THEN Shutdown([closing EXCEPT !.owned = owned, !.failing = failing])
                        ELSE Shutdown(closing)
    /\ UNCHANGED <<client, sampling, instr, consumer, adapter, memory, loading, building,
                   instrumented>>

(***************************************************************************)
(* The construction of an exporter bundle.                                 *)
(***************************************************************************)
\* newExporterBundle(ctx, cfg.Exporters)
BundleCall ==
    /\ \E cfg \in OTLPConfigs, env \in Environments :
          LET res == bundleFrom(cfg, env)
          IN  building' = [done |-> TRUE, cfg |-> cfg, env |-> env, opts |-> res.opts,
                           err |-> res.err]
    /\ UNCHANGED <<client, sampling, instr, consumer, adapter, memory, loading, closing,
                   instrumented>>

(***************************************************************************)
(* A runtime built for its instrumentation helpers.                        *)
(***************************************************************************)
\* runtime.New(ctx, cfg)
NewCall ==
    /\ ~instrumented.done
    /\ \E enabled \in SUBSET {Modules[i] : i \in DOMAIN Modules}, rtm \in BOOLEAN,
          failing \in SUBSET Fallible :
          instrumented' = [instrumented EXCEPT
                              !.done = TRUE,
                              !.rt = newInstrumented(enabled, rtm, failing)]
    /\ UNCHANGED <<client, sampling, instr, consumer, adapter, memory, loading, closing,
                   building>>

\* rt.InitMetrics(state)
InitMetricsCall ==
    /\ instrumented.done /\ ~instrumented.rt.nil /\ ~instrumented.metricsInit
    /\ \E startOK \in BOOLEAN :
          instrumented' = [instrumented EXCEPT
                              !.metricsInit = TRUE,
                              !.rt = initMetricsField(@, startOK)]
    /\ UNCHANGED <<client, sampling, instr, consumer, adapter, memory, loading, closing,
                   building>>

\* rt.Snapshot()
SnapshotCall ==
    /\ instrumented.done /\ ~instrumented.rt.nil
    /\ instrumented' = [instrumented EXCEPT !.taken = TRUE,
                                            !.snap = Instrumentation(instrumented.rt)]
    /\ UNCHANGED <<client, sampling, instr, consumer, adapter, memory, loading, closing,
                   building>>

\* hot reload by the watch loop alone; nobody calls Shutdown, so the context
\* is never cancelled and once.Do never has to wait
Next ==
    \/ FsOp
    \/ Tick
    \/ TimerExpire
    \/ EventRecv
    \/ TimerRecv
    \/ ReloadLoad
    \/ ReloadBuild
    \/ ReloadInitMetrics
    \/ ReloadSwap
    \/ ReloadShutdownOld
    \/ LoopShutBody
    \/ ReloadIncrement
    \/ ReloadFinish

Spec == Init /\ [][Next]_vars

\* hot reload under a concurrent reader calling Client.Runtime and Snapshot
NextReaders ==
    \/ FsOp
    \/ Tick
    \/ TimerExpire
    \/ EventRecv
    \/ TimerRecv
    \/ ReloadLoad
    \/ ReloadBuild
    \/ ReloadInitMetrics
    \/ ReloadSwap
    \/ ReloadShutdownOld
    \/ LoopShutBody
    \/ ReloadIncrement
    \/ ReloadFinish
    \/ ExtRuntime
    \/ ExtSnapshot
    \/ ExtRelease

SpecReaders == Init /\ [][NextReaders]_vars

\* hot reload under concurrent Runtime.Shutdown and Client.Shutdown calls
NextShutdown ==
    \/ FsOpFew
    \/ Tick
    \/ TimerExpire
    \/ EventRecv
    \/ TimerRecv
    \/ CtxDone
    \/ ReloadLoad
    \/ ReloadBuild
    \/ ReloadInitMetrics
    \/ ReloadSwap
    \/ ReloadShutdownOld
    \/ LoopShutBody
    \/ LoopShutWait
    \/ ReloadIncrement
    \/ ReloadFinish
    \/ ExtRuntime
    \/ ExtRelease
    \/ ExtShutdown
    \/ ExtShutBody
    \/ ExtShutWait
    \/ ClientShutdownCancel
    \/ ClientShutdownCall

SpecShutdown == InitShutdown /\ [][NextShutdown]_vars

\* hot reload while a client polls a diagnostics endpoint
NextDiag ==
    \/ FsOp
    \/ Tick
    \/ TimerExpire
    \/ EventRecv
    \/ TimerRecv
    \/ ReloadLoad
    \/ ReloadBuild
    \/ ReloadInitMetrics
    \/ ReloadSwap
    \/ ReloadShutdownOld
    \/ LoopShutBody
    \/ ReloadIncrement
    \/ ReloadFinish
    \/ DiagRequest

SpecDiag == Init /\ [][NextDiag]_vars

\* requests with and without credentials to a diagnostics server
NextAuth ==
    \/ HandleStatusCall

SpecAuth == Init /\ [][NextAuth]_vars

\* the watch loop until it returns: Client.Shutdown cancels the context, or
\* the watcher's channels are closed
NextWatch ==
    \/ FsOpFew
    \/ WatcherFail
    \/ Tick
    \/ TimerExpire
    \/ EventRecv
    \/ TimerRecv
    \/ CtxDone
    \/ ChanClosedRecv
    \/ ReloadLoad
    \/ ReloadBuild
    \/ ReloadInitMetrics
    \/ ReloadSwap
    \/ ReloadShutdownOld
    \/ LoopShutBody
    \/ LoopShutWait
    \/ ReloadIncrement
    \/ ReloadFinish
    \/ ClientShutdownCancel
    \/ ClientShutdownCall
    \/ ExtShutBody

\* a step of the watch loop goroutine
LoopStep ==
    \/ EventRecv
    \/ TimerRecv
    \/ CtxDone
    \/ ChanClosedRecv
    \/ ReloadLoad
    \/ ReloadBuild
    \/ ReloadInitMetrics
    \/ ReloadSwap
    \/ ReloadShutdownOld
    \/ LoopShutBody
    \/ LoopShutWait
    \/ ReloadIncrement
    \/ ReloadFinish

\* the scheduler runs a goroutine that can take a step, and the calls made
\* by reloadRuntime and by Runtime.Shutdown return (the shutdown of the old
\* runtime within constants.DefaultShutdownTimeout)
Fairness ==
    /\ WF_vars(LoopStep)
    /\ WF_vars(ExtShutBody)

SpecWatch == InitShutdown /\ [][NextWatch]_vars /\ Fairness

\* the call of Init on every configuration file and environment
NextInit ==
    \/ InitCall

SpecInit == BeforeInit /\ [][NextInit]_vars

\* the exporter bundle of a runtime under a sequence of export calls
NextExport ==
    \/ ExportSpans
    \/ BundleShutdown

SpecExport == Init /\ [][NextExport]_vars

\* samplerFromConfig on every sampling section
NextSampler ==
    \/ SamplerCall

SpecSampler == Init /\ [][NextSampler]_vars

\* the instrumentation helpers on every kind of wrapped function
NextInstrument ==
    \/ InstrumentCall

SpecInstrument == Init /\ [][NextInstrument]_vars

\* one Consumer.Run over the messages of a reader
NextConsumer ==
    \/ RunValidate
    \/ CtxCancel
    \/ RunCtxErr
    \/ RunFetch
    \/ RunProcess
    \/ RunCommit

SpecConsumer == Init /\ [][NextConsumer]_vars

\* a service that uses the helpers beside a Client that is left alone
InitLibrary == InitWith({CfgPlain}) /\ reloadDebounce = 0

\* a ticker adapter under concurrent Start and Stop calls
NextAdapter ==
    \/ StartCall
    \/ StartCtxCancel
    \/ RunBegin
    \/ RunTick
    \/ RunJobEnd
    \/ RunCtxDone
    \/ RunMarkStopped
    \/ RunWgDone
    \/ StopBegin
    \/ StopCtxDone
    \/ StopCancel
    \/ WaitEnter
    \/ WaitWake
    \/ StopSelectCtx
    \/ StopSelectDone

SpecAdapter == InitLibrary /\ [][NextAdapter]_vars

\* a caller changing the configuration Runtime.Config returned
NextConfig ==
    \/ ConfigCall
    \/ SetName
    \/ SetAttribute
    \/ NewAttributes
    \/ SetEndpoint
    \/ SetHeader
    \/ NewOTLP

SpecConfig == Init /\ [][NextConfig]_vars

\* config.Load on every short sequence of loaders
NextLoad ==
    \/ LoadCall

SpecLoad == InitLibrary /\ [][NextLoad]_vars

\* hot reload with a scheduler that runs the loop goroutine and a clock that
\* advances, so that an armed timer expires
TimeFairness ==
    /\ WF_vars(LoopStep)
    /\ WF_vars(Tick)
    /\ WF_vars(TimerExpire)

NextReload ==
    \/ FsOpDuring
    \/ Tick
    \/ TimerExpire
    \/ EventRecv
    \/ TimerRecv
    \/ ReloadLoad
    \/ ReloadBuild
    \/ ReloadInitMetrics
    \/ ReloadSwap
    \/ ReloadShutdownOld
    \/ LoopShutBody
    \/ ReloadIncrement
    \/ ReloadFinish

SpecReload == Init /\ [][NextReload]_vars /\ TimeFairness

\* Runtime.Shutdown on every set of sub-resources
NextClosing ==
    \/ ShutdownCall

SpecClosing == InitLibrary /\ [][NextClosing]_vars

\* newExporterBundle on every TLS configuration
NextBundle ==
    \/ BundleCall

SpecBundle == InitLibrary /\ [][NextBundle]_vars

\* a runtime built from every choice of enabled modules
NextInstrumented ==
    \/ NewCall
    \/ InitMetricsCall
    \/ SnapshotCall

SpecInstrumented == InitLibrary /\ [][NextInstrumented]_vars

\* hot reload under every kind of debounce duration
SpecDebounce == InitAnyDebounce /\ [][Next]_vars

\* a Client from its Init on, with the hot reloads that follow
NextLifetime ==
    \/ InitCall
    \/ FsOp
    \/ Tick
    \/ TimerExpire
    \/ EventRecv
    \/ TimerRecv
    \/ ReloadLoad
    \/ ReloadBuild
    \/ ReloadInitMetrics
    \/ ReloadSwap
    \/ ReloadShutdownOld
    \/ LoopShutBody
    \/ ReloadIncrement
    \/ ReloadFinish

SpecLifetime == BeforeInit /\ [][NextLifetime]_vars

\* a Client from its Init on, whatever options Init was given
SpecOptions == BeforeInitAny /\ [][NextLifetime]_vars

\* hot reload and a caller of Client.Runtime, step by step on c.mu
NextLock ==
    \/ FsOp
    \/ Tick
    \/ TimerExpire
    \/ EventRecv
    \/ TimerRecv
    \/ ReloadLoad
    \/ ReloadBuild
    \/ ReloadInitMetrics
    \/ SwapLock
    \/ SwapReplace
    \/ SwapUnlock
    \/ ReloadShutdownOld
    \/ LoopShutBody
    \/ ReloadIncrement
    \/ ReloadFinish
    \/ RuntimeCall
    \/ RuntimeRLock
    \/ RuntimeReturn
    \/ ExtRelease

SpecLock == Init /\ [][NextLock]_vars

(***************************************************************************)
(* Properties.                                                             *)
(***************************************************************************)
\* what the latest attempt loaded, and its digest
AttLoaded == loadConfig(att.file)
AttDigest == configDigest(AttLoaded.cfg)

\* the latest attempt has returned
AttDone == att.seq > 0 /\ att.done

\* the lifecycle state is as it was when the latest attempt started
AttNoEffect ==
    /\ runtime = att.preCur
    /\ newCalls = att.preNew
    /\ mgrShut = att.preMgr
    /\ digest = att.preDigest
    /\ configReloads = att.preCount

\* C1: Client.Runtime() always returns a runtime, and one that runtime.New
\* returned without error, whatever events, reloads and readers did
RuntimeNeverNil ==
    /\ runtime # None
    /\ runtime \in DOMAIN rts
    /\ samplerFromConfig(rts[runtime].cfg)
    /\ (ext.pc = "holding" => ext.rt # None /\ ext.rt \in DOMAIN rts)

\* a reader holds the current runtime after a reload that replaced it and a
\* later reload that failed in construction
RuntimeNeverNilWitness ==
    /\ AttDone /\ att.outcome = "buildFail"
    /\ configReloads >= 1
    /\ ext.pc = "holding" /\ ext.rt = runtime

\* C2: a snapshot a reader takes, during a reload that replaces the runtime,
\* of the runtime that reload made current (so obtained from Client.Runtime
\* during the reload) has either the values of the snapshot before the
\* reload or those of the snapshot after it
SnapshotAtomic ==
    (/\ AttDone /\ att.outcome = "swapped"
     /\ ext.pc = "holding" /\ ext.rt = runtime /\ ext.rt # att.preCur
     /\ ext.snapSeq = att.seq)
        => ext.snap \in {att.preSnap, att.postSnap}

\* C3: while Client.Shutdown has not been called, swapRuntime has not invoked
\* Shutdown on the runtime that is current
SwapBeforeShutdown == ~cancelled => runtime \notin mgrShut

\* swapRuntime has invoked Shutdown on the superseded runtime
SwapBeforeShutdownWitness ==
    /\ ~cancelled
    /\ pc = "finish"
    /\ loc.old \in mgrShut /\ rts[loc.old].shutdown
    /\ runtime = loc.rt

\* C4: an attempt whose configuration load or digest computation failed has
\* changed nothing: same current runtime, no runtime.New call, no Shutdown
\* invoked, same stored digest, same reload counter
LoadFailureNoEffect ==
    (AttDone /\ (~AttLoaded.ok \/ ~AttDigest.ok)) => AttNoEffect

\* an attempt failed in the load after an earlier one replaced the runtime
LoadFailureWitness ==
    /\ AttDone /\ ~AttLoaded.ok
    /\ configReloads >= 1

\* an attempt failed in the digest computation
DigestFailureWitness == AttDone /\ AttLoaded.ok /\ ~AttDigest.ok

\* C5: an attempt in which runtime.New or InitMetrics failed leaves the
\* current runtime, the invoked Shutdowns, the stored digest and the counter
\* as they were, and the stored digest differs from the failing
\* configuration's, so a later attempt with it is not skipped
BuildFailureNoEffect ==
    /\ (AttDone /\ att.newErr) =>
          /\ runtime = att.preCur
          /\ mgrShut = att.preMgr
          /\ digest = att.preDigest
          /\ configReloads = att.preCount
          /\ digest # AttDigest.sum
    /\ (AttDone /\ att.prevOutcome \in {"buildFail", "metricsFail"}
                /\ att.file = att.prevFile) => att.outcome # "unchanged"

\* sampling.mode=trace_id_ratio with argument=0 failed in construction twice
\* in a row
BuildFailureWitness ==
    /\ AttDone /\ att.outcome = "buildFail" /\ ~att.envFail
    /\ att.prevOutcome = "buildFail"
    /\ att.file = Yaml(CfgRatioZero) /\ att.prevFile = att.file

\* C6: an attempt that loaded a configuration with the stored digest was
\* skipped: no runtime.New call, same current runtime, no Shutdown invoked,
\* same counter and stored digest
UnchangedSkipped ==
    (AttDone /\ AttLoaded.ok /\ AttDigest.ok /\ AttDigest.sum = att.preDigest)
        => AttNoEffect

\* the file was rewritten with the applied configuration after a reload
UnchangedSkippedWitness ==
    /\ AttDone /\ att.outcome = "unchanged"
    /\ configReloads >= 1

\* C7: with debouncing, the events received since the last attempt have led
\* to at most one attempt, that attempt started no earlier than the debounce
\* duration after the last of them, and while it has not started the timer
\* is pending for it
DebounceOneReload ==
    reloadDebounce > 0 =>
        /\ burst.attempts <= 1
        /\ (att.seq > 0 => att.since >= reloadDebounce)
        /\ (burst.events > 0 /\ burst.attempts = 0) =>
              (pending /\ (timer.armed \/ timer.chan))
        /\ (pending /\ timer.armed) => timer.rem + sinceEvent >= reloadDebounce

\* a burst of two events has triggered its one attempt
DebounceWitness ==
    /\ reloadDebounce > 0
    /\ burst.events >= 2 /\ burst.attempts = 1

\* C8: at most one reloadRuntime invocation is executing
SingleReload == inFlight <= 1

\* a relevant event is waiting while a reload builds a runtime
SingleReloadWitness ==
    /\ inFlight = 1 /\ pc = "build"
    /\ evq # <<>> /\ Relevant(Head(evq))

\* C9: the sub-resources of a runtime are shut down exactly once however many
\* Shutdown calls complete, and no call after the first returns an error
ShutdownOnce ==
    \A r \in DOMAIN rts :
        /\ rts[r].subShut <= 1
        /\ shutLog[r].calls >= 1 => (rts[r].subShut = 1 /\ rts[r].shutdown)
        /\ ~shutLog[r].lateErr

\* the swap and the external caller have both completed a Shutdown call on a
\* runtime whose first call returned an error
ShutdownOnceWitness ==
    \E r \in DOMAIN rts :
        /\ r \in mgrShut
        /\ shutLog[r].calls >= 3
        /\ shutLog[r].firstErr

\* C10: an attempt that loaded a valid configuration with a digest other than
\* the stored one, and met no failure of the environment, ended with a
\* runtime of that configuration current and the counter incremented by one
ReloadApplies ==
    (/\ AttDone /\ AttLoaded.ok /\ AttDigest.ok
     /\ AttDigest.sum # att.preDigest
     /\ samplerFromConfig(AttLoaded.cfg)
     /\ (AttLoaded.cfg.diag => AttLoaded.cfg.addr # "")
     /\ ~att.envFail)
        => /\ rts[runtime].cfg = AttLoaded.cfg
           /\ configReloads = att.preCount + 1

\* the loop is between the replacement of c.runtime and the increment
AfterSwap == pc \in {"shutdownOld", "shutBody", "shutWait", "finish"}

\* C11: the reload counter equals the number of replacements of the current
\* runtime (one behind while the replacing attempt has not yet reached its
\* increment); an attempt that has returned added one if it replaced the
\* runtime and nothing if it was skipped or failed; the counter is never
\* negative
CounterCountsSwaps ==
    /\ configReloads >= 0
    /\ configReloads = IF AfterSwap THEN hist.swaps - 1 ELSE hist.swaps
    /\ AttDone =>
          configReloads = att.preCount + (IF att.outcome = "swapped" THEN 1 ELSE 0)

\* two attempts replaced the runtime
CounterCountsSwapsWitness ==
    /\ AttDone /\ att.outcome = "swapped"
    /\ hist.swaps = 2 /\ configReloads = 2

\* C12: while no reload is executing, the snapshot of the current runtime
\* reports as ConfigReloadCount the number of reloads that replaced the
\* runtime and as SamplingMode the mode of the configuration last applied
SnapshotReportsReloads ==
    ~Reloading =>
        LET snap == SnapshotOf(rts[runtime], configReloads)
        IN  /\ snap.count = hist.swaps
            /\ snap.mode = hist.applied.mode

\* C13: after any sequence of export calls the dropped count, which
\* Snapshot().TraceDroppedSpans reports, is the sum of the sizes of the failed
\* batches, and lastError holds the message and time of the most recent
\* failure (none if no export failed)
ExportStats ==
    /\ exporter.dropped = hist.failedSum
    /\ TraceDroppedSpans(exporter) = hist.failedSum
    /\ statusSnapshot(exporter) = hist.lastFailure

\* three exports of full batches failed in a row, the third with a deadline
\* error
ExportStatsWitness ==
    /\ hist.exports = 3
    /\ hist.lastFailure = [message |-> "deadline exceeded", time |-> 3]
    /\ hist.failedSum = 3 * MaxBatch

\* C14: when the Shutdown that swapRuntime invoked on the superseded runtime
\* returned an error, the new runtime is and stays current, Shutdown was
\* called on the old one just once, and the attempt ends with the counter
\* incremented and the digest of the new configuration stored
ShutdownFailureKeepsSwap ==
    /\ (pc = "finish" /\ shutLog[loc.old].firstErr) =>
          (runtime = loc.rt /\ shutLog[loc.old].calls = 1)
    /\ (AttDone /\ att.outcome = "swapped" /\ shutLog[att.preCur].firstErr) =>
          /\ runtime # att.preCur
          /\ rts[runtime].cfg = AttLoaded.cfg
          /\ ~rts[runtime].shutdown
          /\ shutLog[att.preCur].calls = 1
          /\ configReloads = att.preCount + 1
          /\ digest = AttDigest.sum

\* an attempt has returned whose shutdown of the old runtime failed
ShutdownFailureWitness ==
    /\ AttDone /\ att.outcome = "swapped"
    /\ shutLog[att.preCur].firstErr
    /\ rts[att.preCur].shutdown

\* C15: a returned exporterBundle.shutdown has called Shutdown on the metric
\* reader, the metric exporter and the trace exporter, in this order and on
\* all three, and the error it returned joins the errors of exactly those
\* that failed, in this order; it is nil iff none failed
BundleShutdownOrder ==
    exporter.shut.called =>
        /\ exporter.shut.attempted = <<"metricReader", "metricExporter", "traceExporter">>
        /\ exporter.shut.errs =
              SelectSeq(exporter.shut.attempted, LAMBDA x : x \in hist.shutFailing)
        /\ (exporter.shut.errs = <<>>) <=> (hist.shutFailing = {})

\* the metric reader and the trace exporter failed, the metric exporter did not
BundleShutdownWitness ==
    /\ exporter.shut.called
    /\ hist.shutFailing = {"metricReader", "traceExporter"}
    /\ exporter.shut.errs = <<"metricReader", "traceExporter">>

\* C16: once the watch context is cancelled or the watcher's channels are
\* closed, the watch loop eventually returns, having closed its watcher; the
\* watcher is never closed twice
WatchLoopReturns ==
    /\ [](watcher.closes <= 1)
    /\ (cancelled \/ watcher.chans = "closed") ~> (pc = "stopped" /\ watcher.closes = 1)

\* the loop has applied a reload and then returned, the context having been
\* cancelled, and closed its watcher
WatchLoopReturnsWitness ==
    /\ pc = "stopped" /\ watcher.closes = 1 /\ watcher.chans = "closed"
    /\ cancelled /\ AttDone /\ att.outcome = "swapped"

\* C17: Init returns either a Client and a nil error or no Client and an
\* error; it returns the Client iff the configuration load, runtime.New,
\* InitMetrics and configDigest all succeeded, whether or not the config
\* watcher could be started; without the watcher there is no watch loop
InitAllOrNothing ==
    boot.pc = "done" =>
        LET ld    == loadConfig(file)
            built == New(ld.cfg, boot.envOK, <<>>, 1)
            wired == InitMetrics(built.rt, boot.startOK)
            dg    == configDigest(ld.cfg)
        IN  /\ boot.client <=> ~boot.err
            /\ boot.client <=> (ld.ok /\ built.ok /\ wired.ok /\ dg.ok)
            /\ boot.client <=> (runtime # None)
            /\ boot.client =>
                  (rts[runtime].cfg = ld.cfg /\ digest = dg.sum
                   /\ ((pc = "stopped") <=> ~boot.watchOK))
            /\ ~boot.client => pc = "stopped"

\* Init has returned a Client although the config watcher could not be started
InitAllOrNothingWitness ==
    /\ boot.pc = "done" /\ boot.client /\ ~boot.err
    /\ ~boot.watchOK /\ pc = "stopped" /\ runtime = 1

\* Init has returned an error because the digest could not be computed
InitDigestFailureWitness ==
    /\ boot.pc = "done" /\ ~boot.client /\ boot.err
    /\ loadConfig(file).ok /\ boot.envOK /\ boot.startOK /\ ~configDigest(file.cfg).ok

\* the configuration-derived fields and the instrumentation flags of a snapshot
Stable(snap) ==
    [mode |-> snap.mode, endpoint |-> snap.endpoint,
     runtimeMetrics |-> snap.runtimeMetrics]

\* C18: two snapshots of one runtime, served by its diagnostics endpoint at
\* different times, have the same configuration-derived fields and the same
\* instrumentation flags
RuntimeImmutable ==
    (diagClient.first.rt # None /\ diagClient.last.rt = diagClient.first.rt) =>
        Stable(diagClient.first.snap) = Stable(diagClient.last.snap)

\* C19: with a token configured, HandleStatus answers a request whose
\* Authorization header is 'Bearer ' followed by the token with the snapshot
\* and every other request with 401 and no snapshot; with no token
\* configured it answers every request with the snapshot
HandleStatusAuth ==
    diagClient.req.done =>
        LET snap == SnapshotOf(rts[runtime], configReloads)
            authorized == \/ diagClient.req.token = <<>>
                          \/ diagClient.req.header = <<"Bearer ">> \o diagClient.req.token
        IN  IF authorized
            THEN diagClient.req.status = 200 /\ diagClient.req.body = snap
            ELSE diagClient.req.status = 401 /\ diagClient.req.body = NoSnap

\* C20: while no reload is executing, the snapshot of the current runtime
\* reports as StartTime the time the initial runtime was started at, and as
\* LastReloadTime that same time if no reload replaced the runtime and
\* otherwise the time at which the current runtime was built by the latest
\* such reload
StartTimeIsProcessStart ==
    ~Reloading =>
        LET snap == SnapshotOf(rts[runtime], configReloads)
        IN  /\ snap.start = rts[1].startTime
            /\ snap.lastReload =
                  IF hist.swaps = 0 THEN rts[1].startTime ELSE rts[runtime].lastReload
            /\ hist.swaps > 0 => snap.lastReload > rts[1].startTime

\* C21: samplerFromConfig returns a sampler for always_on, always_off,
\* parentbased_always_on, parentbased_always_off and for trace_id_ratio with
\* an argument in (0,1]; it returns an error for trace_id_ratio with an
\* argument <= 0 or > 1 and for every other mode
SamplerModes ==
    sampling.done =>
        LET c == sampling.cfg
        IN  /\ c.mode \in SupportedModes \ {"trace_id_ratio"} => sampling.ok
            /\ (c.mode = "trace_id_ratio" /\ ~c.nan /\ c.arg > 0 /\ c.arg <= 100) =>
                    sampling.ok
            /\ (c.mode = "trace_id_ratio" /\ ~c.nan /\ (c.arg <= 0 \/ c.arg > 100)) =>
                    ~sampling.ok
            /\ c.mode \notin SupportedModes => ~sampling.ok

\* trace_id_ratio with the argument 0 has been refused
SamplerModesWitness ==
    /\ sampling.done /\ ~sampling.ok
    /\ sampling.cfg = [mode |-> "trace_id_ratio", arg |-> 0, nan |-> FALSE]

\* C27: Helper.Instrument, InstrumentPublish and InstrumentConsume invoke the
\* wrapped function exactly once and return exactly the error it returned,
\* also on a nil helper
InstrumentTransparent ==
    instr.done => (instr.tel.calls = 1 /\ instr.ret = instr.fnErr)

\* a worker helper that is not nil has instrumented a failing job
InstrumentTransparentWitness ==
    /\ instr.done /\ instr.method = "Instrument" /\ ~instr.helperNil
    /\ instr.fnErr = "job failed" /\ instr.ret = "job failed"
    /\ instr.tel.status = "Error" /\ instr.tel.tag = "error"

\* the positions of the reader and handler calls about message i in the log
At(ev, i) == {k \in 1..Len(consumer.log) : consumer.log[k].ev = ev /\ consumer.log[k].msg = i}

\* C22: every fetched message is committed at most once, only after the
\* handler returned nil for it and before the next message is fetched; when
\* the handler returns an error, Run returns that error without committing
\* the message and without fetching another one
CommitAfterSuccess ==
    \A i \in 1..MaxMsgs :
        /\ Cardinality(At("commit", i)) <= 1
        /\ \A k \in At("commit", i) :
              /\ \E j \in At("handle", i) : j < k /\ consumer.log[j].err = ""
              /\ \A n \in At("fetch", i + 1) : k < n
        /\ \A n \in At("fetch", i + 1) : At("commit", i) # {}
        /\ \A j \in At("handle", i) :
              consumer.log[j].err # "" =>
                  /\ j = Len(consumer.log)
                  /\ At("commit", i) = {}
                  /\ consumer.pc = "returned"
                  /\ consumer.ret = ErrNew(consumer.log[j].err)

\* Run has committed the first message and returned the handler's error for
\* the second, through both helpers
CommitAfterSuccessWitness ==
    /\ consumer.pc = "returned" /\ consumer.ret = ErrNew("job failed")
    /\ ~consumer.workerNil /\ ~consumer.messagingNil
    /\ consumer.log = <<[ev |-> "fetch", msg |-> 1, err |-> ""],
                        [ev |-> "handle", msg |-> 1, err |-> ""],
                        [ev |-> "commit", msg |-> 1, err |-> ""],
                        [ev |-> "fetch", msg |-> 2, err |-> ""],
                        [ev |-> "handle", msg |-> 2, err |-> "job failed"]>>

\* C23: Start returns an error and leaves the adapter unchanged when the
\* adapter is running or the job function is nil; at most one run loop is
\* active and at most one job executes at any time
StartExclusive ==
    /\ (adapter.lastStart.n > 0 /\ (adapter.lastStart.fnNil \/ adapter.lastStart.wasRunning))
            => (adapter.lastStart.ret # NoErr /\ adapter.lastStart.same)
    /\ Cardinality({l \in 1..MaxStarts : Active(adapter.loops[l])}) <= 1
    /\ Cardinality({l \in 1..MaxStarts : adapter.loops[l].pc = "job"}) <= 1

\* the second Start has been refused while the loop of the first executes
\* the job
StartExclusiveWitness ==
    /\ adapter.lastStart = [n |-> 2, fnNil |-> FALSE, wasRunning |-> TRUE,
                             ret |-> ErrNew("ticker adapter already running"),
                             same |-> TRUE]
    /\ adapter.loops[1].pc = "job" /\ adapter.loops[2].pc = "none"

\* the error Stop returns when its context has ended
StopCtxErr == ErrWrap("context deadline exceeded", "stop ticker adapter")

\* what holds of every Stop call that has returned, whatever the claim about
\* its context: on a stopped adapter it returns nil and changes nothing; on
\* a running adapter it returns nil only after the run loop it cancelled has
\* exited, which never runs a job again, and with the adapter ready for a
\* Start; the only error it returns is that of its context, once it ended
StopReturns(st) ==
    /\ ~st.running => (st.ret = NoErr /\ ~st.after.running /\ st.waiter = "none")
    /\ (st.running /\ st.ret = NoErr) =>
          /\ st.after.exited /\ adapter.loops[st.cancel].pc = "exited"
          /\ st.after.running => st.after.cancel # st.cancel
    /\ st.ret # NoErr => (st.ret = StopCtxErr /\ st.ctxDone)

\* a Start on a stopped adapter with a job function succeeds
StartSucceeds ==
    (adapter.lastStart.n > 0 /\ ~adapter.lastStart.fnNil /\ ~adapter.lastStart.wasRunning)
        => adapter.lastStart.ret = NoErr

\* C24 as stated: moreover, a Stop whose context ended while the run loop was
\* still active returns the context's error
StopWaits ==
    /\ StartSucceeds
    /\ \A i \in 1..MaxStops :
          adapter.stops[i].pc = "returned" =>
              /\ StopReturns(adapter.stops[i])
              /\ adapter.stops[i].ctxFirst => adapter.stops[i].ret = StopCtxErr

\* C24 amended: moreover, a Stop that returns while the run loop it cancelled
\* has not exited returns the context's error; when the context has ended
\* and the loop has exited, Stop returns either that error or nil
StopWaitsOrTimesOut ==
    /\ StartSucceeds
    /\ \A i \in 1..MaxStops :
          adapter.stops[i].pc = "returned" =>
              /\ StopReturns(adapter.stops[i])
              /\ (adapter.stops[i].running /\ ~adapter.stops[i].after.exited) =>
                      adapter.stops[i].ret = StopCtxErr

\* Stop has returned nil on a running adapter whose loop was executing a
\* job, and the next Start has succeeded
StopWaitsWitness ==
    /\ adapter.stops[1].pc = "returned" /\ adapter.stops[1].running
    /\ adapter.stops[1].ret = NoErr /\ adapter.stops[1].cancel = 1
    /\ adapter.loops[1].pc = "exited"
    /\ adapter.lastStart.n = 2 /\ adapter.lastStart.ret = NoErr
    /\ adapter.loops[2].pc = "job"

\* C25: whatever a caller does to the value Runtime.Config returned, through
\* its maps and its OTLP section as well, the runtime goes on reporting the
\* configuration it was built with, through Config and through Snapshot
ConfigReturnsCopy ==
    /\ Denotes(memory, Config(memory).copy) = Denotes(NewMemory, NewMemory.rcfg)
    /\ ConfigSnapshot(memory) = ConfigSnapshot(NewMemory)

\* the loaders of the latest Load that set field f
Setting(f) ==
    {i \in 1..Len(loading.loaders) :
        loading.loaders[i].kind = "map" /\ f \in DOMAIN loading.loaders[i].values}

\* the value of the last loader that sets f, otherwise the default
Layered(f) ==
    IF Setting(f) = {} THEN DefaultConfig[f]
    ELSE LET last == CHOOSE i \in Setting(f) : \A j \in Setting(f) : j <= i
         IN  loading.loaders[last].values[f]

ClientShutdownReturned == ext.pc = "holding"

\* C28: once Client.Shutdown has returned, c.runtime is still the runtime it
\* has shut down, whatever the watch loop was doing when it was called
ShutdownIsFinal ==
    ClientShutdownReturned => (runtime = ext.rt /\ rts[runtime].once = "done")

\* reloadRuntime or swapRuntime holds runtime r in a local variable, on its
\* way to becoming current or to being shut down
InHand(r) ==
    \/ pc \in {"metrics", "swap"} /\ loc.rt = r
    \/ pc = "shutdownOld" /\ loc.old = r

\* C29: every runtime that runtime.New has returned is the current one, is
\* about to be installed or retired, or has had Shutdown invoked on it
RuntimesAccountedFor ==
    \A r \in DOMAIN rts : r = runtime \/ InHand(r) \/ rts[r].once # "idle"

\* C30: a relevant event delivered while reload k is executing is followed,
\* after that reload, by a further reload attempt, and the configuration
\* last written is eventually the one a reload attempt has loaded
EventNotLost ==
    \A k \in 1..MaxFsOps :
        (hist.overlap = k) ~> (att.seq > k /\ AttDone /\ att.file = file /\ evq = <<>>)

\* the file was rewritten while a debounced reload was executing, and a
\* later attempt has loaded what was written
EventNotLostWitness ==
    /\ reloadDebounce > 0
    /\ hist.overlap = 1
    /\ att.seq = 2 /\ AttDone
    /\ att.file = file /\ att.prevFile # file
    /\ evq = <<>>

\* C36: the first Shutdown attempts the tracer provider, the meter provider,
\* the exporter bundle, the metrics controller and the diagnostics server the
\* runtime owns, in this order and all of them, returns the join of the errors
\* of those that failed (nil iff none failed) and marks the runtime shut down
ShutdownAttemptsAll ==
    closing.calls >= 1 =>
        /\ closing.attempted = SelectSeq(Owned, LAMBDA x : x \in closing.owned)
        /\ closing.errs = SelectSeq(Owned, LAMBDA x : x \in closing.failing)
        /\ closing.first = IF closing.failing = {} THEN NoErr
                            ELSE ErrWrap(closing.errs, "shutdown runtime")
        /\ IsShutdown(closing)

\* the tracer provider and the diagnostics server failed, the runtime owns
\* all five, and a second call has returned nil
ShutdownAttemptsAllWitness ==
    /\ closing.calls = 2
    /\ closing.owned = {Owned[i] : i \in DOMAIN Owned}
    /\ closing.failing = {"tracerProvider", "diagServer"}
    /\ closing.attempted = Owned
    /\ closing.first # NoErr /\ closing.last = NoErr

\* C38: a tls section with no file and insecure false is not an error and
\* gives no TLS option; a configuration with exactly one of cert_file and
\* key_file makes the construction of the bundle fail
TLSPairRequired ==
    building.done =>
        LET tls == building.cfg.tls
        IN  /\ (tls.caFile = "" /\ tls.certFile = "" /\ tls.keyFile = "" /\ ~tls.insecure)
                  => (building.err = NoErr /\ "tls" \notin building.opts)
            /\ ((tls.certFile = "") # (tls.keyFile = "")) => building.err # NoErr

\* C39: for a runtime built from a configuration, the accessor of each of
\* the five modules returns a helper iff the configuration enables the
\* module, the snapshot reports the module iff the configuration enables it,
\* and the snapshot's map has all six keys
InstrumentationMatchesConfig ==
    (instrumented.done /\ ~instrumented.rt.nil) =>
        /\ \A i \in DOMAIN Modules :
              Accessor(instrumented.rt, Modules[i]) <=> Modules[i] \in instrumented.rt.enabled
        /\ instrumented.taken =>
              /\ DOMAIN instrumented.snap =
                    {"http", "grpc", "sql", "messaging", "worker", "runtimeMetrics"}
              /\ \A i \in DOMAIN Modules :
                    instrumented.snap[Modules[i]] <=> Modules[i] \in instrumented.rt.enabled

\* a runtime with sql and worker enabled and the others disabled, after
\* InitMetrics, whose snapshot has been taken
InstrumentationMatchesConfigWitness ==
    /\ instrumented.done /\ ~instrumented.rt.nil /\ instrumented.taken
    /\ instrumented.metricsInit
    /\ instrumented.rt.enabled = {"sql", "worker"}
    /\ instrumented.snap["sql"] /\ ~instrumented.snap["http"]
    /\ instrumented.snap["runtimeMetrics"]

\* C32: with a debounce duration of zero or less the pending flag is never
\* set and the timer is never armed, and a step of the loop starts a reload
\* attempt iff it receives a relevant event: the attempts are the relevant
\* events, one for one and in the order they were received
ImmediateReload ==
    /\ [](reloadDebounce <= 0 => (~pending /\ ~timer.armed /\ ~timer.chan))
    /\ [][reloadDebounce <= 0 =>
            /\ (evq # <<>> /\ evq' = Tail(evq) /\ Relevant(Head(evq)))
                   <=> att'.seq = att.seq + 1
            /\ att'.seq # att.seq =>
                   (pc = "select" /\ pc' = "load" /\ att'.seq = att.seq + 1)]_vars

\* two relevant events have been received under a negative debounce
\* duration, each started an attempt, and the second attempt is over
ImmediateReloadWitness ==
    /\ reloadDebounce < 0
    /\ nOps = 2 /\ evq = <<>>
    /\ att.seq = 2 /\ att.done
    /\ ~pending /\ ~timer.armed

\* C35: while no reload is executing the stored digest is the digest of
\* the configuration of the current runtime, and the stored digest changes
\* only when Init returns a Client and at the end of a reload that has
\* swapped its runtime in
StoredDigestIsCurrent ==
    /\ []((boot.client /\ ~Reloading) => digest = configDigest(rts[runtime].cfg).sum)
    /\ [][digest' # digest =>
            \/ boot.pc = "init" /\ boot'.client
            \/ pc = "store" /\ runtime = loc.rt /\ att'.outcome = "swapped"]_vars

\* after a reload that swapped and one that failed, the stored digest is
\* that of the second runtime, which is current
StoredDigestIsCurrentWitness ==
    /\ boot.client /\ ~Reloading
    /\ att.seq = 2 /\ att.outcome \notin {"swapped", "unchanged"}
    /\ att.prevOutcome = "swapped"
    /\ runtime = 2
    /\ digest = configDigest(rts[2].cfg).sum
    /\ digest # configDigest(rts[1].cfg).sum

\* C37: a step that receives an event about another file, or one whose
\* operation is not write, create or rename, starts no reload, leaves the
\* timer and the pending flag as they are; the flag is set and the timer
\* armed only by a step that receives a relevant event, and a reload starts
\* only on such a step or on the expiry of the timer such a step armed
OnlyRelevantEvents ==
    [][LET received == evq # <<>> /\ evq' = Tail(evq)
           ev       == Head(evq)
           named    == ev.name = Target
           written  == ev.op = "write" \/ ev.op = "create" \/ ev.op = "rename"
       IN  /\ (received /\ ~(named /\ written))
                  => UNCHANGED <<pending, timer, pc, inFlight, att>>
           /\ ((pending' /\ ~pending)
                  \/ (timer'.armed /\ (~timer.armed \/ timer'.rem > timer.rem)))
                  => (received /\ named /\ written)
           /\ att'.seq # att.seq
                  => \/ received /\ named /\ written
                     \/ timer.chan /\ pending /\ ~pending']_vars

\* two file-system operations were reported and both events have been
\* received by a debouncing loop: nothing is pending, no timer is armed and
\* no reload has started
OnlyRelevantEventsWitness ==
    /\ reloadDebounce > 0
    /\ nOps = 2 /\ evq = <<>>
    /\ att.seq = 0 /\ pc = "select"
    /\ ~pending /\ ~timer.armed /\ ~timer.chan

\* C33: whenever no reload is executing, the process-wide default tracer
\* and meter providers are those of the runtime Client.Runtime() returns
GlobalProvidersAreCurrent ==
    ~Reloading => otelProviders = rts[runtime].startTime

\* C34: after a reload attempt that failed in runtime.New or in InitMetrics,
\* c.logger and c.opts.logger are not a logger this attempt built
LoggerKeptOnFailure ==
    (att.done /\ att.outcome \in {"buildFail", "metricsFail"})
        => (logger # FromConfig(att.seq) /\ settings.logger # FromConfig(att.seq))

\* C40: with WithConfig(cfg), Init fails only where runtime.New, InitMetrics
\* or configDigest fail on cfg, whatever the file holds; the runtime of the
\* Client is built from cfg, every reload attempt ends as unchanged without
\* reaching runtime.New, and c.runtime is never replaced
OverrideNeverReloads ==
    ~settings.overrideConfig.nil =>
        LET cfg == settings.overrideConfig.cfg
        IN  /\ boot.pc = "done" =>
                  (boot.client <=>
                      /\ New(cfg, boot.envOK, <<>>, 1).ok
                      /\ InitMetrics(New(cfg, boot.envOK, <<>>, 1).rt, boot.startOK).ok
                      /\ configDigest(cfg).ok)
            /\ boot.client =>
                  /\ runtime = 1 /\ rts[1].cfg = cfg /\ Len(rts) = 1
                  /\ digest = configDigest(cfg).sum
                  /\ hist.swaps = 0 /\ configReloads = 0 /\ newCalls = 1
            /\ pc \in {"stopped", "select", "load"}
            /\ (att.seq > 0 /\ att.done) => att.outcome = "unchanged"

\* a Client from WithConfig whose file has been rewritten twice and does
\* not parse: both reload attempts were skipped as unchanged
OverrideNeverReloadsWitness ==
    /\ ~settings.overrideConfig.nil /\ boot.client
    /\ file = Garbage /\ nOps = 2 /\ evq = <<>>
    /\ att.seq = 2 /\ att.done /\ att.outcome = "unchanged"
    /\ att.prevOutcome = "unchanged"
    /\ runtime = 1

\* C31: the write lock of the Client is held only between Lock and Unlock
\* in swapRuntime, with the replacement of c.runtime in between: while it is
\* held no configuration is loaded, no runtime is built, wired to the
\* metrics or shut down and no reload starts or returns, so that a caller
\* of Client.Runtime() blocked in RLock waits for the replacement alone
LockOnlyAcrossReplacement ==
    /\ [](mu.writer => (pc \in {"swapLocked", "swapReplaced"} /\ mu.readers = 0))
    /\ []((ext.pc = "rlock" /\ pc \notin {"swapLocked", "swapReplaced"})
             => ENABLED RuntimeRLock)
    /\ [][mu.writer =>
            /\ UNCHANGED <<newCalls, rts, att, inFlight, mgrShut, shutLog, digest,
                           configReloads>>
            /\ (pc' \in {"swapReplaced", "shutdownOld", "finish"}
                   \/ UNCHANGED <<pc, runtime>>)]_vars

\* a caller of Client.Runtime() is blocked in RLock while the loop holds the
\* write lock and has replaced c.runtime by the second runtime
LockOnlyAcrossReplacementWitness ==
    /\ mu.writer /\ ext.pc = "rlock"
    /\ pc = "swapReplaced" /\ runtime = 2 /\ loc.old = 1
    /\ rts[1].once = "idle"

====
